---- MODULE Spec2Model ----
(***************************************************************************)
(* A model of the render core of modula: the RenderTarget texture          *)
(* lifecycle (crates/modula_render/src/render_target.rs), the Sequence     *)
(* compilation and execution (crates/modula_render/src/sequence.rs) and    *)
(* the frame driver (crates/modula_render/src/lib.rs).                     *)
(***************************************************************************)
EXTENDS Integers, Sequences, FiniteSets, TLC

(***************************************************************************)
(* Bounds of the model.                                                    *)
(***************************************************************************)
\* create_texture calls per texture axis after which apply is no longer taken
MaxAllocs == 2
\* swapchain images handed to apply_surface
MaxImages == 2
\* operation builders added to one SequenceBuilder
MaxBuilders == 3
\* operation builders of the sequence the frame driver is run with
MaxFrameOps == 2
\* ids in the SequenceQueue at one time
MaxQueue == 2

\* The values a search is called with are at most MaxValue
MaxValue == 5

(***************************************************************************)
(* Option<T>                                                               *)
(***************************************************************************)
NoneV == [some |-> FALSE]
Some(x) == [some |-> TRUE, v |-> x]

(***************************************************************************)
(* Values of the configuration fields the model draws from.                *)
(***************************************************************************)
RENDER_ATTACHMENT == "RENDER_ATTACHMENT"
TEXTURE_BINDING == "TEXTURE_BINDING"
Sizes == {<<800, 600>>, <<1024, 768>>}
ClearColors == {"BLACK", "WHITE"}
ClearDepths == {0, 1}
ClearStencils == {0, 1}
SampleCounts == {2, 4}
ColorFormats == {"Rgba8UnormSrgb", "Bgra8UnormSrgb"}
DepthFormats == {"Depth24PlusStencil8", "Depth32Float"}
UsageSets == {{RENDER_ATTACHMENT}, {TEXTURE_BINDING}}
Axes == {"color", "multisample", "depth_stencil"}

\* impl Default for RenderTargetDepthStencilConfig
DefaultDepthStencilConfig ==
    [clear_depth |-> 1, clear_stencil |-> 0,
     usages |-> {RENDER_ATTACHMENT}, format |-> "Depth24PlusStencil8"]

\* impl Default for RenderTargetMultisampleConfig
DefaultMultisampleConfig == [sample_count |-> 4]

\* impl Default for RenderTargetColorConfig
DefaultColorConfig ==
    [clear_color |-> "BLACK", usages |-> {RENDER_ATTACHMENT},
     format |-> "Rgba8UnormSrgb"]

\* The configs a RenderTarget is constructed with: every presence pattern of
\* the three sub-configs, at each size.
InitConfigs ==
    { [size |-> s, multisample_config |-> m, depth_stencil_config |-> d,
       color_config |-> c] :
        s \in Sizes,
        m \in {NoneV, Some(DefaultMultisampleConfig)},
        d \in {NoneV, Some(DefaultDepthStencilConfig)},
        c \in {NoneV, Some(DefaultColorConfig)} }

(***************************************************************************)
(* State.                                                                  *)
(***************************************************************************)
VARIABLES
    rt,            \* the RenderTarget under test (struct RenderTarget)
    allocCount,    \* device.create_texture calls so far, per texture axis
    nextImage,     \* swapchain images handed out so far
    panicked,      \* a panic unwound the program
    lastOp,        \* the call that produced this state
    config0,       \* the config the RenderTarget was constructed with
    structChanged, \* a call changed size, usages, formats or multisampling
    firstApply,    \* "none", or which of apply / apply_surface came first
    armed          \* per one-shot flag: scheduled since the call that consumes it

rtVars ==
    <<rt, allocCount, nextImage, panicked, lastOp, config0, structChanged,
      firstApply, armed>>

VARIABLES
    sequence_builder, \* the SequenceBuilder: its operation_builders, or consumed
    inner,            \* Sequence::inner of the Sequence it finishes into
    added             \* the builders passed to SequenceBuilder::add, in order

seqVars == <<sequence_builder, inner, added>>

VARIABLES
    pc,               \* where handle_redraw_event stands: "idle" between events
    targets,          \* Assets<RenderTarget>: the asset of each id, if any
    sequences,        \* Assets<Sequence>: Sequence::inner of each id, if any
    sequence_queue,   \* SequenceQueue
    surface_config,   \* SurfaceConfigRes: the size the surface is configured to
    redraw_requested, \* window.request_redraw() was called and not yet served
    should_exit,      \* the ShuoldExit resource was inserted
    log               \* what the redraw being handled (or the last one) did

frameVars ==
    <<pc, targets, sequences, sequence_queue, surface_config,
      redraw_requested, should_exit, log>>

VARIABLES
    call,             \* the last call of binsearch or binsearch_upwards
    result            \* what that call returned, or that it panicked

searchVars == <<call, result>>

VARIABLES
    asset_store,      \* an Assets<T>: its next counter and its assets map
    issued,           \* the ids add and add_empty have returned, in order
    lastAssetOp       \* the last call on asset_store and what it returned

assetVars == <<asset_store, issued, lastAssetOp>>

vars == <<rtVars, seqVars, frameVars, searchVars, assetVars>>

(***************************************************************************)
(* RenderTarget                                                            *)
(***************************************************************************)
\* RenderTarget::new
new(config) ==
    [current_config |-> NoneV,
     scheduled_config |-> Some(config),
     main_texture |-> NoneV,
     multisampled_texture |-> NoneV,
     depth_stencil_texture |-> NoneV,
     resolve_next |-> FALSE,
     clear_next |-> FALSE,
     clear_next_depth_stencil |-> FALSE]

\* self.current_config.as_ref().or_else(|| self.scheduled_config.as_ref())
effective_config(t) ==
    IF t.current_config.some THEN t.current_config ELSE t.scheduled_config

\* RenderTarget::current_config: .expect(..) panics on None
current_config_panics(t) == ~effective_config(t).some

current_config(t) == effective_config(t).v

\* RenderTarget::scheduled_config
scheduled_config(t) == t.scheduled_config

\* RenderTarget::is_surface
is_surface(t) ==
    IF t.main_texture.some THEN t.main_texture.v.inner = "Surface" ELSE FALSE

\* Mutant of scheduled_config_mut: the current config is moved, not cloned
scheduled_config_mut_move(t) ==
    IF ~t.scheduled_config.some
    THEN IF current_config_panics(t)
         THEN [t |-> t, panic |-> TRUE]
         ELSE [t |-> [t EXCEPT !.scheduled_config = Some(current_config(t)),
                               !.current_config = NoneV],
               panic |-> FALSE]
    ELSE [t |-> t, panic |-> FALSE]

\* RenderTarget::scheduled_config_mut, as {t, panic}
scheduled_config_mut(t) ==
    IF ~t.scheduled_config.some
    THEN IF current_config_panics(t)
         THEN [t |-> t, panic |-> TRUE]
         ELSE [t |-> [t EXCEPT !.scheduled_config = Some(current_config(t))],
               panic |-> FALSE]
    ELSE [t |-> t, panic |-> FALSE]

\* RenderTarget::size
size(t) == current_config(t).size

\* RenderTarget::resize
resize(t, sz) ==
    LET r == scheduled_config_mut(t) IN
    IF r.panic THEN r
    ELSE [t |-> [r.t EXCEPT !.scheduled_config.v.size = sz], panic |-> FALSE]

\* RenderTarget::set_clear_color
set_clear_color(t, color) ==
    LET r == scheduled_config_mut(t) IN
    IF r.panic THEN r
    ELSE IF r.t.scheduled_config.v.color_config.some
    THEN [t |-> [r.t EXCEPT !.scheduled_config.v.color_config.v.clear_color = color],
          panic |-> FALSE]
    ELSE r

\* RenderTarget::set_clear_depth
set_clear_depth(t, depth) ==
    LET r == scheduled_config_mut(t) IN
    IF r.panic THEN r
    ELSE IF r.t.scheduled_config.v.depth_stencil_config.some
    THEN [t |-> [r.t EXCEPT !.scheduled_config.v.depth_stencil_config.v.clear_depth = depth],
          panic |-> FALSE]
    ELSE r

\* RenderTarget::set_clear_stencil
set_clear_stencil(t, stencil) ==
    LET r == scheduled_config_mut(t) IN
    IF r.panic THEN r
    ELSE IF r.t.scheduled_config.v.depth_stencil_config.some
    THEN [t |-> [r.t EXCEPT !.scheduled_config.v.depth_stencil_config.v.clear_stencil = stencil],
          panic |-> FALSE]
    ELSE r

\* Mutant of apply_val: the whole sub-config is compared, clear values
\* included
apply_val_whole(val, c) == c

\* Mutant of apply_val: the color closure compares the format as well
apply_val_format(val, c) == <<c.usages, c.format>>

\* The closures handed to different: |c| c.usages and |c| (c.usages, c.format)
apply_val(val, c) ==
    IF val = "usages" THEN <<c.usages>> ELSE <<c.usages, c.format>>

\* Option::map(val)
map_val(o, val) == IF o.some THEN Some(apply_val(val, o.v)) ELSE NoneV

\* fn different(a, b, val)
different(a, b, val) ==
    IF ~a.some /\ ~b.some THEN FALSE
    ELSE map_val(a, val) # map_val(b, val)

\* Mutant of changes: any scheduled config counts as a change of all three
\* axes
changes_all(t) ==
    [color_changed |-> ~t.current_config.some \/ t.scheduled_config.some,
     depth_stencil_changed |-> ~t.current_config.some \/ t.scheduled_config.some,
     multisample_changed |-> ~t.current_config.some \/ t.scheduled_config.some]

\* RenderTarget::changes
changes(t) ==
    IF ~t.current_config.some
    THEN [color_changed |-> TRUE, depth_stencil_changed |-> TRUE,
          multisample_changed |-> TRUE]
    ELSE IF ~t.scheduled_config.some
    THEN [color_changed |-> FALSE, depth_stencil_changed |-> FALSE,
          multisample_changed |-> FALSE]
    ELSE LET current == t.current_config.v
             scheduled == t.scheduled_config.v
             resized == current.size # scheduled.size
         IN [color_changed |->
                 resized \/ different(current.color_config,
                                      scheduled.color_config, "usages"),
             depth_stencil_changed |->
                 resized \/ different(current.depth_stencil_config,
                                      scheduled.depth_stencil_config,
                                      "usages_format"),
             multisample_changed |->
                 resized \/ (current.multisample_config
                             # scheduled.multisample_config)]

(***************************************************************************)
(* Textures.  A texture created by device.create_texture is identified by  *)
(* the axis it was created for and the number of that creation; a          *)
(* swapchain image by the number of its acquisition.                       *)
(***************************************************************************)
\* TextureWithView::from_texture(device.create_texture(&desc))
from_texture(desc, axis, dev) ==
    [inner |-> "Normal", size |-> desc.size, format |-> desc.format,
     usage |-> desc.usage, sample_count |-> desc.sample_count,
     id |-> <<axis, dev[axis] + 1>>]

\* TextureWithView::from_surface_texture
from_surface_texture(img) ==
    [inner |-> "Surface", size |-> img.size, format |-> img.format,
     usage |-> {RENDER_ATTACHMENT}, sample_count |-> 1,
     id |-> <<"surface", img.id>>]

\* let mut desc = TextureDescriptor { .. } of apply_changes
base_desc(t) ==
    [size |-> current_config(t).size, sample_count |-> 1,
     format |-> "Rgba8UnormSrgb", usage |-> {RENDER_ATTACHMENT}]

\* if changes.color_changed { .. } of apply_changes; st = {t, dev, desc, returned}
color_stage(st, ch) ==
    IF ~ch.color_changed THEN st
    ELSE IF is_surface(st.t) THEN [st EXCEPT !.returned = TRUE]
    ELSE LET c == current_config(st.t).color_config IN
         IF c.some
         THEN LET desc == [st.desc EXCEPT
                               !.usage = c.v.usages \cup {RENDER_ATTACHMENT},
                               !.format = c.v.format]
              IN [t |-> [st.t EXCEPT !.main_texture =
                             Some(from_texture(desc, "color", st.dev))],
                  dev |-> [st.dev EXCEPT !["color"] = @ + 1],
                  desc |-> desc,
                  returned |-> FALSE]
         ELSE [st EXCEPT !.t.main_texture = NoneV]

\* if changes.multisample_changed { .. } of apply_changes
multisample_stage(st, ch) ==
    IF st.returned \/ ~ch.multisample_changed THEN st
    ELSE LET c == current_config(st.t).multisample_config IN
         IF c.some
         THEN LET desc == [st.desc EXCEPT
                               !.usage = {RENDER_ATTACHMENT},
                               !.sample_count = c.v.sample_count]
              IN [t |-> [st.t EXCEPT !.multisampled_texture =
                             Some(from_texture(desc, "multisample", st.dev))],
                  dev |-> [st.dev EXCEPT !["multisample"] = @ + 1],
                  desc |-> desc,
                  returned |-> FALSE]
         ELSE [st EXCEPT !.t.multisampled_texture = NoneV]

\* if changes.depth_stencil_changed { .. } of apply_changes
depth_stencil_stage(st, ch) ==
    IF st.returned \/ ~ch.depth_stencil_changed THEN st
    ELSE LET c == current_config(st.t).depth_stencil_config IN
         IF c.some
         THEN LET desc == [st.desc EXCEPT
                               !.sample_count = 1,
                               !.usage = c.v.usages \cup {RENDER_ATTACHMENT},
                               !.format = c.v.format]
              IN [t |-> [st.t EXCEPT !.depth_stencil_texture =
                             Some(from_texture(desc, "depth_stencil", st.dev))],
                  dev |-> [st.dev EXCEPT !["depth_stencil"] = @ + 1],
                  desc |-> desc,
                  returned |-> FALSE]
         ELSE [st EXCEPT !.t.depth_stencil_texture = NoneV]

\* Mutant of take_scheduled: the scheduled config is cloned, not taken
take_scheduled_clone(t) ==
    [t EXCEPT !.current_config = t.scheduled_config]

\* self.current_config = self.scheduled_config.take()
take_scheduled(t) ==
    [t EXCEPT !.current_config = t.scheduled_config,
              !.scheduled_config = NoneV]

\* RenderTarget::apply_changes, as {t, dev, panic}
apply_changes(t, ch, dev) ==
    LET t1 == take_scheduled(t) IN
    IF ~ch.color_changed /\ ~ch.depth_stencil_changed /\ ~ch.multisample_changed
    THEN [t |-> t1, dev |-> dev, panic |-> FALSE]
    ELSE IF current_config_panics(t1)
    THEN [t |-> t1, dev |-> dev, panic |-> TRUE]
    ELSE LET st0 == [t |-> t1, dev |-> dev, desc |-> base_desc(t1),
                     returned |-> FALSE]
             st == depth_stencil_stage(
                       multisample_stage(color_stage(st0, ch), ch), ch)
         IN [t |-> st.t, dev |-> st.dev, panic |-> FALSE]

\* Mutant of apply: the old textures are released before the changes are
\* looked at
apply_release_first(t, dev) ==
    apply_changes([t EXCEPT !.main_texture = NoneV,
                            !.multisampled_texture = NoneV,
                            !.depth_stencil_texture = NoneV],
                  changes(t), dev)

\* RenderTarget::apply
apply(t, dev) == apply_changes(t, changes(t), dev)

\* RenderTarget::apply_surface; img = {size, format, id}
apply_surface(t, img, dev) ==
    LET r == resize(t, img.size) IN
    IF r.panic THEN [t |-> r.t, dev |-> dev, panic |-> TRUE]
    ELSE LET t1 == [r.t EXCEPT !.main_texture = Some(from_surface_texture(img))]
             ch == [changes(t1) EXCEPT !.color_changed = FALSE]
         IN apply_changes(t1, ch, dev)

\* Mutant of present: the main texture is looked at, not taken
present_keep(t) ==
    IF ~t.main_texture.some
    THEN [t |-> t, panic |-> TRUE, presented |-> NoneV]
    ELSE IF t.main_texture.v.inner = "Normal"
    THEN [t |-> t, panic |-> TRUE, presented |-> NoneV]
    ELSE [t |-> t, panic |-> FALSE, presented |-> Some(t.main_texture.v.id)]

\* RenderTarget::present, as {t, panic, presented}
present(t) ==
    LET t1 == [t EXCEPT !.main_texture = NoneV] IN
    IF ~t.main_texture.some
    THEN [t |-> t1, panic |-> TRUE, presented |-> NoneV]
    ELSE IF t.main_texture.v.inner = "Normal"
    THEN [t |-> t1, panic |-> TRUE, presented |-> NoneV]
    ELSE [t |-> t1, panic |-> FALSE, presented |-> Some(t.main_texture.v.id)]

(***************************************************************************)
(* SpecRT: one RenderTarget driven through its API in any order.           *)
(***************************************************************************)
\* The fields of a config that decide which textures exist and how they are
\* created: everything but the clear values.
structure(cfg) ==
    [size |-> cfg.size,
     multisample_config |-> cfg.multisample_config,
     color_config |->
         IF cfg.color_config.some
         THEN <<cfg.color_config.v.usages, cfg.color_config.v.format>>
         ELSE <<>>,
     depth_stencil_config |->
         IF cfg.depth_stencil_config.some
         THEN <<cfg.depth_stencil_config.v.usages,
                cfg.depth_stencil_config.v.format>>
         ELSE <<>>]

\* Whether the call that left the target as t gave it a scheduled config of
\* another structure than the one it was constructed with
restructured(t) ==
    /\ t.scheduled_config.some
    /\ structure(t.scheduled_config.v) # structure(config0)

NoAllocs == [a \in Axes |-> 0]

\* No schedule_* call was made yet
NotArmed ==
    [clear_next |-> FALSE, clear_next_depth_stencil |-> FALSE,
     resolve_next |-> FALSE]

\* Assets::new
Assets_new == [next |-> 0, assets |-> <<>>]

\* No Assets<T> of its own is part of the run
NoAssets ==
    /\ asset_store = Assets_new
    /\ issued = <<>>
    /\ lastAssetOp = [op |-> "new"]

\* The searches of modula_utils are not part of the run
NoSearch ==
    /\ call = [fn |-> "none"]
    /\ result = [panic |-> FALSE, res |-> NoneV]

\* The frame driver is not part of the run: no window, no assets
NoFrame ==
    /\ pc = "off"
    /\ targets = <<>>
    /\ sequences = <<>>
    /\ sequence_queue = <<>>
    /\ surface_config = <<1, 1>>
    /\ redraw_requested = FALSE
    /\ should_exit = FALSE
    /\ log = <<>>

InitRT ==
    /\ config0 \in InitConfigs
    /\ rt = new(config0)
    /\ allocCount = NoAllocs
    /\ nextImage = 0
    /\ panicked = FALSE
    /\ lastOp = [op |-> "new"]
    /\ structChanged = FALSE
    /\ firstApply = "none"
    /\ armed = NotArmed
    /\ sequence_builder = [consumed |-> TRUE]
    /\ inner = [state |-> "Absent"]
    /\ added = <<>>
    /\ NoFrame
    /\ NoSearch
    /\ NoAssets

\* A mutator of the scheduled config was called with outcome r
Mutated(r, op) ==
    /\ rt' = r.t
    /\ panicked' = r.panic
    /\ lastOp' = op
    /\ structChanged' = (structChanged \/ restructured(r.t))
    /\ UNCHANGED <<allocCount, nextImage, config0, firstApply, armed>>
    /\ UNCHANGED <<seqVars, frameVars, searchVars, assetVars>>

Resize ==
    /\ ~panicked
    /\ \E sz \in Sizes :
           Mutated(resize(rt, sz), [op |-> "resize", arg |-> sz])

SetClearColor ==
    /\ ~panicked
    /\ \E c \in ClearColors :
           Mutated(set_clear_color(rt, c), [op |-> "set_clear_color", arg |-> c])

SetClearDepth ==
    /\ ~panicked
    /\ \E d \in ClearDepths :
           Mutated(set_clear_depth(rt, d), [op |-> "set_clear_depth", arg |-> d])

SetClearStencil ==
    /\ ~panicked
    /\ \E s \in ClearStencils :
           Mutated(set_clear_stencil(rt, s),
                   [op |-> "set_clear_stencil", arg |-> s])

\* The model stops applying once an axis has seen MaxAllocs creations
AllocsLeft == \A a \in Axes : allocCount[a] < MaxAllocs

Apply ==
    /\ ~panicked
    /\ AllocsLeft
    /\ LET r == apply(rt, allocCount) IN
         /\ rt' = r.t
         /\ allocCount' = r.dev
         /\ panicked' = r.panic
    /\ lastOp' = [op |-> "apply"]
    /\ firstApply' = IF firstApply = "none" THEN "apply" ELSE firstApply
    /\ UNCHANGED <<nextImage, config0, structChanged, armed>>
    /\ UNCHANGED <<seqVars, frameVars, searchVars, assetVars>>

\* The swapchain image of the n-th acquisition, at the size the surface is
\* configured with
image(n, sz) == [size |-> sz, format |-> "Bgra8UnormSrgb", id |-> n]

ApplySurface ==
    /\ ~panicked
    /\ AllocsLeft
    /\ nextImage < MaxImages
    /\ \E sz \in Sizes :
         LET img == image(nextImage + 1, sz)
             r == apply_surface(rt, img, allocCount)
         IN /\ rt' = r.t
            /\ allocCount' = r.dev
            /\ panicked' = r.panic
            /\ structChanged' =
                   (structChanged \/ restructured(resize(rt, sz).t))
            /\ lastOp' = [op |-> "apply_surface", arg |-> sz]
    /\ nextImage' = nextImage + 1
    /\ firstApply' = IF firstApply = "none" THEN "apply_surface" ELSE firstApply
    /\ UNCHANGED <<config0, armed>>
    /\ UNCHANGED <<seqVars, frameVars, searchVars, assetVars>>

\* What the main texture slot of a target holds
held(t) == IF t.main_texture.some THEN t.main_texture.v.inner ELSE "none"

Present ==
    /\ ~panicked
    /\ LET r == present(rt) IN
         /\ rt' = r.t
         /\ panicked' = r.panic
    /\ lastOp' = [op |-> "present", after |-> lastOp.op, held |-> held(rt)]
    /\ UNCHANGED <<allocCount, nextImage, config0, structChanged, firstApply,
                   armed>>
    /\ UNCHANGED <<seqVars, frameVars, searchVars, assetVars>>

NextRT ==
    \/ Resize
    \/ SetClearColor
    \/ SetClearDepth
    \/ SetClearStencil
    \/ Apply
    \/ ApplySurface
    \/ Present

SpecRT == InitRT /\ [][NextRT]_vars

(***************************************************************************)
(* Claims about the RenderTarget, checked under SpecRT.                    *)
(***************************************************************************)
\* The three texture slots of a target
slots(t) == <<t.main_texture, t.multisampled_texture, t.depth_stencil_texture>>

\* The scheduled config a mutator starts from: the pending one, or a copy of
\* the current one
pending(t) ==
    IF t.scheduled_config.some THEN t.scheduled_config.v ELSE current_config(t)

\* C1: in every state reached by resize, set_clear_*, apply (also applied
\* twice in a row) current_config() returns a config without panicking, and a
\* target that has an applied config keeps having one.
C1_CurrentConfigNeverFails ==
    [][ /\ ~current_config_panics(rt')
        /\ (rt.current_config.some => rt'.current_config.some) ]_vars

\* C2: an apply that finds a scheduled config makes it the current config and
\* leaves no scheduled config; and the scheduled config is what the mutators
\* made of it: each sets its own field to the value passed and keeps the rest.
C2_ApplyTakesScheduled ==
    [][ /\ (lastOp'.op = "apply" /\ rt.scheduled_config.some) =>
               /\ ~panicked'
               /\ ~current_config_panics(rt')
               /\ current_config(rt') = rt.scheduled_config.v
               /\ ~scheduled_config(rt').some
        /\ (lastOp'.op = "resize" /\ ~panicked') =>
               /\ rt'.scheduled_config.some
               /\ rt'.scheduled_config.v = [pending(rt) EXCEPT !.size = lastOp'.arg]
        /\ (lastOp'.op = "set_clear_color" /\ ~panicked') =>
               /\ rt'.scheduled_config.some
               /\ rt'.scheduled_config.v =
                      IF pending(rt).color_config.some
                      THEN [pending(rt) EXCEPT
                                !.color_config.v.clear_color = lastOp'.arg]
                      ELSE pending(rt)
        /\ (lastOp'.op = "set_clear_depth" /\ ~panicked') =>
               /\ rt'.scheduled_config.some
               /\ rt'.scheduled_config.v =
                      IF pending(rt).depth_stencil_config.some
                      THEN [pending(rt) EXCEPT
                                !.depth_stencil_config.v.clear_depth = lastOp'.arg]
                      ELSE pending(rt)
        /\ (lastOp'.op = "set_clear_stencil" /\ ~panicked') =>
               /\ rt'.scheduled_config.some
               /\ rt'.scheduled_config.v =
                      IF pending(rt).depth_stencil_config.some
                      THEN [pending(rt) EXCEPT
                                !.depth_stencil_config.v.clear_stencil = lastOp'.arg]
                      ELSE pending(rt)
      ]_vars

\* C2 witness: an apply has taken a scheduled config whose size and clear
\* values were all set by mutators (none is the value of a constructed config).
C2_Witness ==
    /\ lastOp.op = "apply"
    /\ ~panicked
    /\ rt.current_config.some
    /\ ~rt.scheduled_config.some
    /\ rt.current_config.v.size # config0.size
    /\ rt.current_config.v.color_config.some
    /\ rt.current_config.v.color_config.v.clear_color = "WHITE"
    /\ rt.current_config.v.depth_stencil_config.some
    /\ rt.current_config.v.depth_stencil_config.v.clear_depth = 0
    /\ rt.current_config.v.depth_stencil_config.v.clear_stencil = 1

\* C3: an apply that finds no scheduled config (no change since the previous
\* apply) creates no texture and leaves the three texture slots as they were.
C3_ApplyIdempotent ==
    [][ (lastOp'.op = "apply" /\ ~rt.scheduled_config.some) =>
            /\ allocCount' = allocCount
            /\ slots(rt') = slots(rt) ]_vars

\* C3 witness: apply was called with nothing scheduled (which is what leaves
\* both configs empty) on a target that holds all three textures.
C3_Witness ==
    /\ lastOp.op = "apply"
    /\ ~panicked
    /\ ~rt.scheduled_config.some
    /\ ~rt.current_config.some
    /\ rt.main_texture.some
    /\ rt.multisampled_texture.some
    /\ rt.depth_stencil_texture.some

\* Whether a config has the sub-config of a texture axis
axis_present(cfg, a) ==
    IF a = "color" THEN cfg.color_config.some
    ELSE IF a = "multisample" THEN cfg.multisample_config.some
    ELSE cfg.depth_stencil_config.some

\* C4 as claimed: while size, usages, formats and multisampling were never
\* changed, every axis present in the config has been allocated exactly once
\* from the first apply / apply_surface on, and nothing else was allocated.
C4_OneAllocationPerAxis ==
    ~structChanged =>
        \A a \in Axes :
            allocCount[a] =
                IF firstApply # "none" /\ axis_present(config0, a) THEN 1 ELSE 0

\* C4 as amended: the same for the multisample and depth-stencil axes; the
\* color axis is allocated exactly once when the first call was apply, and
\* never when it was apply_surface, which adopts the swapchain image.
C4_OneAllocationPerOwnedAxis ==
    ~structChanged =>
        \A a \in Axes :
            allocCount[a] =
                IF /\ axis_present(config0, a)
                   /\ \/ firstApply = "apply"
                      \/ (firstApply = "apply_surface" /\ a # "color")
                THEN 1 ELSE 0

\* C4 witness: a target with all three sub-configs, never restructured, was
\* applied first, then had a clear colour set and applied, then adopted a
\* same-size swapchain image.
C4_Witness ==
    /\ ~structChanged
    /\ ~panicked
    /\ firstApply = "apply"
    /\ lastOp.op = "apply_surface"
    /\ \A a \in Axes : axis_present(config0, a) /\ allocCount[a] = 1
    /\ rt.current_config.some
    /\ rt.current_config.v.color_config.v.clear_color = "WHITE"

\* C11: present panics exactly when the main slot is empty or holds a texture
\* that is not surface-backed; a present that succeeds leaves the slot empty;
\* only apply_surface puts a surface-backed texture into the slot; hence a
\* present right after a present panics.
C11_PresentNeedsSurfaceImage ==
    [][ /\ lastOp'.op = "present" =>
               /\ panicked' <=> held(rt) # "Surface"
               /\ ~panicked' => held(rt') = "none"
               /\ lastOp.op = "present" => panicked'
        /\ (held(rt') = "Surface" /\ held(rt) # "Surface") =>
               lastOp'.op = "apply_surface"
      ]_vars

\* C11 witness: a present succeeded and the present called right after it
\* found the slot empty and panicked.
C11_Witness ==
    /\ lastOp.op = "present"
    /\ lastOp.after = "present"
    /\ lastOp.held = "none"
    /\ panicked
    /\ nextImage > 0

\* What apply_surface is claimed to do with the image it is given, in a step
\* from target t to target u with creation counts dev and dev2
adopted(t, u, img, dev, dev2) ==
    /\ u.main_texture = Some(from_surface_texture(img))
    /\ ~current_config_panics(u)
    /\ size(u) = img.size
    /\ dev2["color"] = dev["color"]
    /\ ( /\ ~current_config_panics(t)
         /\ size(t) = <<800, 600>>
         /\ img.size = <<1024, 768>>
         /\ current_config(t).depth_stencil_config.some
         /\ ~current_config(t).multisample_config.some )
       => /\ dev2["depth_stencil"] = dev["depth_stencil"] + 1
          /\ dev2["multisample"] = dev["multisample"]
          /\ u.depth_stencil_texture.some
          /\ u.depth_stencil_texture.v.id =
                 <<"depth_stencil", dev2["depth_stencil"]>>
          /\ u.depth_stencil_texture.v.size = img.size

\* C14: every apply_surface call returns with the supplied image as the main
\* texture and size() equal to the image's size, without creating a color
\* texture; on a target at (800,600) with a depth-stencil config and no
\* multisample config, a (1024,768) image makes it create exactly one
\* texture, the depth-stencil texture.
C14_ApplySurfaceAdoptsImage ==
    [][ lastOp'.op = "apply_surface" =>
            /\ ~panicked'
            /\ adopted(rt, rt', image(nextImage', lastOp'.arg),
                       allocCount, allocCount')
      ]_vars

\* C18: an apply on a surface-backed target for which changes() reports the
\* color axis as changed returns without a panic, keeps the surface image as
\* the main texture and creates no color texture.
C18_SurfaceColorChangeRefused ==
    [][ (lastOp'.op = "apply" /\ is_surface(rt) /\ changes(rt).color_changed) =>
            /\ ~panicked'
            /\ rt'.main_texture = rt.main_texture
            /\ allocCount'["color"] = allocCount["color"]
      ]_vars

\* C30: whenever a call creates the multisample texture of a target that
\* holds a color texture, the new texture has the format of the color texture
\* (for a target the application configured: the format of its color config;
\* for the surface target: the format of the swapchain image).
C30_MultisampleFormatFollowsColor ==
    [][ ( /\ allocCount'["multisample"] # allocCount["multisample"]
          /\ ~panicked'
          /\ rt'.main_texture.some )
        => /\ rt'.multisampled_texture.some
           /\ rt'.multisampled_texture.v.format = rt'.main_texture.v.format
           /\ held(rt') = "Normal" =>
                  rt'.multisampled_texture.v.format
                      = rt'.current_config.v.color_config.v.format
      ]_vars

(***************************************************************************)
(* Sequence: operation builders, compilation into steps.                   *)
(***************************************************************************)
\* AssetId<RenderTarget> of the render targets the operations name
TargetIds == {0, 1}

\* The reading() and writing() lists (Vec<AssetId<RenderTarget>>) of the
\* operation builders other crates define
ReadDecls == {<<>>, <<0>>, <<1>>, <<0, 0>>, <<1, 0>>}
WriteDecls == {<<>>, <<0>>, <<1>>, <<0, 1>>}

\* The builders handed to SequenceBuilder::add: ClearNext and EmptyPass of
\* sequence/basic.rs, and implementors of OperationBuilder with declared lists
OperationBuilders ==
    { [kind |-> k, render_target |-> t] :
          k \in {"ClearNext", "EmptyPass"}, t \in TargetIds }
    \cup { [kind |-> "User", reads |-> r, writes |-> w] :
               r \in ReadDecls, w \in WriteDecls }

\* OperationBuilder::reading
reading(b) ==
    IF b.kind = "ClearNext" THEN <<>>
    ELSE IF b.kind = "EmptyPass" THEN <<>>
    ELSE b.reads

\* OperationBuilder::writing
writing(b) ==
    IF b.kind = "ClearNext" THEN <<>>
    ELSE IF b.kind = "EmptyPass" THEN <<b.render_target>>
    ELSE b.writes

\* DynOperationBuilderImpl::finish: the operation of builder b, the n-th added
finish(b, n) == [builder |-> n, def |-> b]

\* SequenceOperation::Run
Run(op) == [step |-> "Run", op |-> op]

\* SequenceOperation::ResolveNext
ResolveNext(target) == [step |-> "ResolveNext", target |-> target]

\* Mutant of reading_loop: a target read stays in needs_resolving
RECURSIVE reading_loop_keep(_, _, _)
reading_loop_keep(rs, needs_resolving, operations) ==
    IF rs = <<>>
    THEN [needs_resolving |-> needs_resolving, operations |-> operations]
    ELSE IF Head(rs) \in needs_resolving
    THEN reading_loop_keep(Tail(rs), needs_resolving,
                           Append(operations, ResolveNext(Head(rs))))
    ELSE reading_loop_keep(Tail(rs), needs_resolving, operations)

\* for reading in builder.reading() { .. } of Sequence::run
RECURSIVE reading_loop(_, _, _)
reading_loop(rs, needs_resolving, operations) ==
    IF rs = <<>>
    THEN [needs_resolving |-> needs_resolving, operations |-> operations]
    ELSE IF Head(rs) \in needs_resolving
    THEN reading_loop(Tail(rs), needs_resolving \ {Head(rs)},
                      Append(operations, ResolveNext(Head(rs))))
    ELSE reading_loop(Tail(rs), needs_resolving, operations)

\* for writing in builder.writing() { needs_resolving.insert(writing); }
writing_loop(ws, needs_resolving) ==
    needs_resolving \cup {ws[i] : i \in DOMAIN ws}

\* Mutant of compile_builder: the operation is pushed before the resolves of
\* its reads
compile_builder_run_first(builder, n, c) ==
    LET r == reading_loop(reading(builder), c.needs_resolving,
                          Append(c.operations, Run(finish(builder, n))))
    IN [needs_resolving |-> writing_loop(writing(builder), r.needs_resolving),
        operations |-> r.operations]

\* The body of for builder in builders { .. } of Sequence::run, for the n-th
\* builder; c = {needs_resolving, operations}
compile_builder(builder, n, c) ==
    LET r == reading_loop(reading(builder), c.needs_resolving, c.operations)
    IN [needs_resolving |-> writing_loop(writing(builder), r.needs_resolving),
        operations |-> Append(r.operations, Run(finish(builder, n)))]

\* for builder in builders { .. } of Sequence::run; n builders were done before
RECURSIVE builders_loop(_, _, _)
builders_loop(builders, n, c) ==
    IF builders = <<>> THEN c
    ELSE builders_loop(Tail(builders), n + 1,
                       compile_builder(Head(builders), n + 1, c))

\* The orders in which a HashSet may be iterated
iterations(S) ==
    { p \in [1..Cardinality(S) -> S] :
          \A i, j \in 1..Cardinality(S) : p[i] = p[j] => i = j }

\* Mutant of trailing: no step is pushed after the last builder
trailing_none(needs_resolving, p) == <<>>

\* for resolve in needs_resolving { .. } of Sequence::run, where the HashSet
\* iterates its ids in the order they have in p
trailing(needs_resolving, p) ==
    LET in_set(t) == t \in needs_resolving
        order == SelectSeq(p, in_set)
    IN [i \in DOMAIN order |-> ResolveNext(order[i])]

\* The if let InnerSequence::UnInitialized block of Sequence::run, with p the
\* iteration order of the HashSet
compile_in(builders, p) ==
    LET c == builders_loop(builders, 0,
                           [needs_resolving |-> {}, operations |-> <<>>])
    IN c.operations \o trailing(c.needs_resolving, p)

\* The step lists the compilation may produce
compile(builders) == { compile_in(builders, p) : p \in iterations(TargetIds) }

(***************************************************************************)
(* SpecSeq: a SequenceBuilder is filled, finished and the Sequence compiled.*)
(***************************************************************************)
InitSeq ==
    /\ sequence_builder = [consumed |-> FALSE, operation_builders |-> <<>>]
    /\ inner = [state |-> "Absent"]
    /\ added = <<>>
    /\ rt = new(CHOOSE c \in InitConfigs : TRUE)
    /\ config0 = CHOOSE c \in InitConfigs : TRUE
    /\ allocCount = NoAllocs
    /\ nextImage = 0
    /\ panicked = FALSE
    /\ lastOp = [op |-> "new"]
    /\ structChanged = FALSE
    /\ firstApply = "none"
    /\ armed = NotArmed
    /\ NoFrame
    /\ NoSearch
    /\ NoAssets

\* Mutant of Add: the builder is inserted at the front
Add_front ==
    /\ ~sequence_builder.consumed
    /\ Len(sequence_builder.operation_builders) < MaxBuilders
    /\ \E b \in OperationBuilders :
         /\ sequence_builder' =
                [sequence_builder EXCEPT
                     !.operation_builders = <<b>> \o @]
         /\ added' = Append(added, b)
    /\ UNCHANGED inner
    /\ UNCHANGED <<rtVars, frameVars, searchVars, assetVars>>

\* SequenceBuilder::add
Add ==
    /\ ~sequence_builder.consumed
    /\ Len(sequence_builder.operation_builders) < MaxBuilders
    /\ \E b \in OperationBuilders :
         /\ sequence_builder' =
                [sequence_builder EXCEPT
                     !.operation_builders = Append(@, b)]
         /\ added' = Append(added, b)
    /\ UNCHANGED inner
    /\ UNCHANGED <<rtVars, frameVars, searchVars, assetVars>>

\* SequenceBuilder::finish
Finish ==
    /\ ~sequence_builder.consumed
    /\ inner' = [state |-> "UnInitialized",
                 builders |-> sequence_builder.operation_builders]
    /\ sequence_builder' = [consumed |-> TRUE]
    /\ UNCHANGED added
    /\ UNCHANGED <<rtVars, frameVars, searchVars, assetVars>>

\* Sequence::run, first execution: the builders are compiled into steps
Compile ==
    /\ inner.state = "UnInitialized"
    /\ \E operations \in compile(inner.builders) :
         inner' = [state |-> "Ready", ops |-> operations]
    /\ UNCHANGED <<sequence_builder, added>>
    /\ UNCHANGED <<rtVars, frameVars, searchVars, assetVars>>

NextSeq ==
    \/ Add
    \/ Finish
    \/ Compile

SpecSeq == InitSeq /\ [][NextSeq]_vars

(***************************************************************************)
(* Claims about the compiled step list, checked under SpecSeq.             *)
(***************************************************************************)
\* The compiled steps (none before the first run)
ops == IF inner.state = "Ready" THEN inner.ops ELSE <<>>

\* Builder k declares target T in its writing / reading list
Writes(k, T) == \E i \in DOMAIN writing(added[k]) : writing(added[k])[i] = T
Reads(k, T) == \E i \in DOMAIN reading(added[k]) : reading(added[k])[i] = T

\* The position of the Run step of builder k (0 for k = 0)
RunPos(k) ==
    IF k = 0 THEN 0
    ELSE CHOOSE p \in DOMAIN ops : ops[p].step = "Run" /\ ops[p].op.builder = k

\* Step p is ResolveNext(T)
IsResolve(p, T) == ops[p].step = "ResolveNext" /\ ops[p].target = T

\* The position of the last Run step (0 when there is none)
LastRun ==
    IF \E p \in DOMAIN ops : ops[p].step = "Run"
    THEN CHOOSE p \in DOMAIN ops :
             /\ ops[p].step = "Run"
             /\ \A q \in DOMAIN ops : ops[q].step = "Run" => q <= p
    ELSE 0

\* A builder that only writes T / only reads T (listing it once or twice)
OnlyWrites(b, T) == reading(b) = <<>> /\ writing(b) = <<T>>
OnlyReads(b, T) == reading(b) \in {<<T>>, <<T, T>>} /\ writing(b) = <<>>

\* C5: read after write.  When builder j reads T, an earlier builder i wrote T
\* and no ResolveNext(T) was emitted between Run(i) and Run(j-1), the list
\* has ResolveNext(T) between Run(j-1) and Run(j); [W, R] compiles to exactly
\* [Run(W), ResolveNext(T), Run(R)].
C5_ResolveBeforeRead ==
    inner.state = "Ready" =>
        /\ \A T \in TargetIds : \A j \in 1..Len(added) :
               ( /\ Reads(j, T)
                 /\ \E i \in 1..(j - 1) :
                        /\ Writes(i, T)
                        /\ \A p \in (RunPos(i) + 1)..RunPos(j - 1) :
                               ~IsResolve(p, T) )
               => \E p \in (RunPos(j - 1) + 1)..(RunPos(j) - 1) : IsResolve(p, T)
        /\ \A T \in TargetIds :
               ( /\ Len(added) = 2
                 /\ OnlyWrites(added[1], T)
                 /\ OnlyReads(added[2], T) )
               => ops = << Run(finish(added[1], 1)), ResolveNext(T),
                           Run(finish(added[2], 2)) >>

\* C5 witness: [EmptyPass(0), R(reads 0)] has been compiled
C5_Witness ==
    /\ inner.state = "Ready"
    /\ Len(added) = 2
    /\ added[1] = [kind |-> "EmptyPass", render_target |-> 0]
    /\ added[2] = [kind |-> "User", reads |-> <<0>>, writes |-> <<>>]
    /\ Len(ops) = 3

\* C6: trailing resolve.  After the last Run step there is exactly one
\* ResolveNext(T) for every T written by a builder with no ResolveNext(T)
\* between that builder's Run and the last Run, and none for any other T;
\* [W] compiles to [Run(W), ResolveNext(T)].
C6_TrailingResolve ==
    inner.state = "Ready" =>
        /\ \A T \in TargetIds :
               Cardinality({p \in (LastRun + 1)..Len(ops) : IsResolve(p, T)})
                   = IF \E i \in 1..Len(added) :
                            /\ Writes(i, T)
                            /\ \A p \in (RunPos(i) + 1)..LastRun : ~IsResolve(p, T)
                     THEN 1 ELSE 0
        /\ \A p \in (LastRun + 1)..Len(ops) :
               \E T \in TargetIds : IsResolve(p, T)
        /\ \A T \in TargetIds :
               (Len(added) = 1 /\ OnlyWrites(added[1], T))
               => ops = << Run(finish(added[1], 1)), ResolveNext(T) >>

\* C6 witness: a sequence that writes both targets and reads one of them back
\* has been compiled, so one target is resolved in the middle and one at the end
C6_Witness ==
    /\ inner.state = "Ready"
    /\ Len(added) = 2
    /\ added[1] = [kind |-> "User", reads |-> <<>>, writes |-> <<0, 1>>]
    /\ added[2] = [kind |-> "User", reads |-> <<0>>, writes |-> <<>>]
    /\ ops[Len(ops)] = ResolveNext(1)
    /\ Len(ops) = 4

\* C7: no duplicate resolves.  Before every ResolveNext(T), and after the
\* previous ResolveNext(T) if there is one, there is a Run of a builder that
\* writes T; [W1, W2, R] compiles to [Run(W1), Run(W2), ResolveNext(T),
\* Run(R)], also when R lists T twice.
C7_NoDuplicateResolve ==
    inner.state = "Ready" =>
        /\ \A T \in TargetIds : \A p \in DOMAIN ops :
               IsResolve(p, T) =>
                   \E r \in 1..(p - 1) :
                       /\ ops[r].step = "Run"
                       /\ Writes(ops[r].op.builder, T)
                       /\ \A q \in r..(p - 1) : ~IsResolve(q, T)
        /\ \A T \in TargetIds :
               ( /\ Len(added) = 3
                 /\ OnlyWrites(added[1], T)
                 /\ OnlyWrites(added[2], T)
                 /\ OnlyReads(added[3], T) )
               => ops = << Run(finish(added[1], 1)), Run(finish(added[2], 2)),
                           ResolveNext(T), Run(finish(added[3], 3)) >>

\* C7 witness: [W1, W2, R] with R listing the target twice has been compiled
C7_Witness ==
    /\ inner.state = "Ready"
    /\ Len(added) = 3
    /\ added[1] = [kind |-> "EmptyPass", render_target |-> 0]
    /\ added[2] = [kind |-> "User", reads |-> <<>>, writes |-> <<0>>]
    /\ added[3] = [kind |-> "User", reads |-> <<0, 0>>, writes |-> <<>>]
    /\ Len(ops) = 4

\* The Run steps of a step list, in order
RECURSIVE run_steps(_)
run_steps(l) ==
    IF l = <<>> THEN <<>>
    ELSE IF Head(l).step = "Run" THEN <<Head(l)>> \o run_steps(Tail(l))
    ELSE run_steps(Tail(l))

\* C8: no reordering, no dropping.  The builders are kept in the order of the
\* add calls, and the Run steps of the compiled list are exactly one Run per
\* builder in that order; every other step is a ResolveNext.
C8_RunsInAuthorOrder ==
    /\ ~sequence_builder.consumed => sequence_builder.operation_builders = added
    /\ inner.state = "UnInitialized" => inner.builders = added
    /\ inner.state = "Ready" =>
           /\ run_steps(ops) = [k \in 1..Len(added) |-> Run(finish(added[k], k))]
           /\ \A p \in DOMAIN ops :
                  ops[p].step # "Run" => \E T \in TargetIds : IsResolve(p, T)

\* C8 witness: three different builders, with resolves between them, compiled
C8_Witness ==
    /\ inner.state = "Ready"
    /\ Len(added) = 3
    /\ added[1] = [kind |-> "EmptyPass", render_target |-> 1]
    /\ added[2] = [kind |-> "ClearNext", render_target |-> 1]
    /\ added[3] = [kind |-> "User", reads |-> <<1>>, writes |-> <<0>>]
    /\ Len(ops) = 5

(***************************************************************************)
(* RenderTarget: one-shot flags and pass creation.                         *)
(***************************************************************************)
\* RenderTarget::schedule_clear_color
schedule_clear_color(t) == [t EXCEPT !.clear_next = TRUE]

\* RenderTarget::schedule_clear_depth_stencil
schedule_clear_depth_stencil(t) == [t EXCEPT !.clear_next_depth_stencil = TRUE]

\* RenderTarget::schedule_resolve
schedule_resolve(t) == [t EXCEPT !.resolve_next = TRUE]

\* The color attachment of create_pass
color_attachment(t, resolve, clear) ==
    IF t.main_texture.some
    THEN Some([view |-> t.main_texture.v.id,
               resolve_target |->
                   IF t.multisampled_texture.some /\ resolve
                   THEN Some(t.multisampled_texture.v.id) ELSE NoneV,
               load |-> IF clear
                        THEN <<"Clear", current_config(t).color_config.v.clear_color>>
                        ELSE <<"Load">>])
    ELSE NoneV

\* The depth/stencil attachment of create_pass
depth_stencil_attachment(t, clear_depth_stencil) ==
    IF t.depth_stencil_texture.some
    THEN Some([view |-> t.depth_stencil_texture.v.id,
               depth_load |->
                   IF clear_depth_stencil
                   THEN <<"Clear", current_config(t).depth_stencil_config.v.clear_depth>>
                   ELSE <<"Load">>,
               stencil_load |->
                   IF clear_depth_stencil
                   THEN <<"Clear", current_config(t).depth_stencil_config.v.clear_stencil>>
                   ELSE <<"Load">>])
    ELSE NoneV

\* The expects of create_pass that fail: current_config() and "texture but no
\* color config" / "texture but no depth/stencil config"
create_pass_panics(t) ==
    \/ /\ t.main_texture.some
       /\ t.clear_next
       /\ \/ current_config_panics(t)
          \/ ~current_config(t).color_config.some
    \/ /\ t.depth_stencil_texture.some
       /\ t.clear_next_depth_stencil
       /\ \/ current_config_panics(t)
          \/ ~current_config(t).depth_stencil_config.some

\* RenderTarget::create_pass, as {t, panic, pass}
create_pass(t, resolve) ==
    LET t1 == [t EXCEPT !.clear_next = FALSE,
                        !.clear_next_depth_stencil = FALSE]
    IN IF create_pass_panics(t)
       THEN [t |-> t1, panic |-> TRUE, pass |-> NoneV]
       ELSE [t |-> t1, panic |-> FALSE,
             pass |-> Some([resolve |-> resolve,
                            color |-> color_attachment(t, resolve, t.clear_next),
                            depth_stencil |->
                                depth_stencil_attachment(
                                    t, t.clear_next_depth_stencil)])]

\* RenderTarget::begin_pass
begin_pass(t) == create_pass([t EXCEPT !.resolve_next = FALSE], t.resolve_next)

\* RenderTarget::begin_resolving_pass
begin_resolving_pass(t) == create_pass(t, TRUE)

\* RenderTarget::begin_non_resolving_pass
begin_non_resolving_pass(t) == create_pass(t, FALSE)

(***************************************************************************)
(* SpecPass: one RenderTarget is configured, applied, has its one-shot     *)
(* flags scheduled and passes begun on it, in any order.                   *)
(***************************************************************************)
InitPass ==
    /\ config0 \in { c \in InitConfigs : c.size = <<800, 600>> }
    /\ rt = new(config0)
    /\ allocCount = NoAllocs
    /\ nextImage = 0
    /\ panicked = FALSE
    /\ lastOp = [op |-> "new"]
    /\ structChanged = FALSE
    /\ firstApply = "none"
    /\ armed = NotArmed
    /\ sequence_builder = [consumed |-> TRUE]
    /\ inner = [state |-> "Absent"]
    /\ added = <<>>
    /\ NoFrame
    /\ NoSearch
    /\ NoAssets

\* A schedule_* call left the target as t, having set the flag named flag
Scheduled(t, flag) ==
    /\ rt' = t
    /\ armed' = [armed EXCEPT ![flag] = TRUE]
    /\ lastOp' = [op |-> "schedule", flag |-> flag]
    /\ UNCHANGED <<allocCount, nextImage, panicked, config0, structChanged,
                   firstApply>>
    /\ UNCHANGED <<seqVars, frameVars, searchVars, assetVars>>

ScheduleClearColor ==
    /\ ~panicked
    /\ Scheduled(schedule_clear_color(rt), "clear_next")

ScheduleClearDepthStencil ==
    /\ ~panicked
    /\ Scheduled(schedule_clear_depth_stencil(rt), "clear_next_depth_stencil")

ScheduleResolve ==
    /\ ~panicked
    /\ Scheduled(schedule_resolve(rt), "resolve_next")

\* The pass-creating call op returned r; takes_resolve: it is begin_pass
PassBegun(r, op, takes_resolve) ==
    /\ rt' = r.t
    /\ panicked' = r.panic
    /\ lastOp' = [op |-> op, pass |-> r.pass]
    /\ armed' = [clear_next |-> FALSE, clear_next_depth_stencil |-> FALSE,
                 resolve_next |-> ~takes_resolve /\ armed.resolve_next]
    /\ UNCHANGED <<allocCount, nextImage, config0, structChanged, firstApply>>
    /\ UNCHANGED <<seqVars, frameVars, searchVars, assetVars>>

BeginPass ==
    /\ ~panicked
    /\ PassBegun(begin_pass(rt), "begin_pass", TRUE)

BeginResolvingPass ==
    /\ ~panicked
    /\ PassBegun(begin_resolving_pass(rt), "begin_resolving_pass", FALSE)

BeginNonResolvingPass ==
    /\ ~panicked
    /\ PassBegun(begin_non_resolving_pass(rt), "begin_non_resolving_pass", FALSE)

NextPass ==
    \/ Resize
    \/ SetClearColor
    \/ SetClearDepth
    \/ SetClearStencil
    \/ Apply
    \/ ScheduleClearColor
    \/ ScheduleClearDepthStencil
    \/ ScheduleResolve
    \/ BeginPass
    \/ BeginResolvingPass
    \/ BeginNonResolvingPass

SpecPass == InitPass /\ [][NextPass]_vars

(***************************************************************************)
(* Claims about the one-shot flags, checked under SpecPass.                *)
(***************************************************************************)
\* The calls that create a pass
PassOps == {"begin_pass", "begin_resolving_pass", "begin_non_resolving_pass"}

\* The load ops of pass p are Clear exactly for the attachments whose clear
\* was scheduled, as recorded in a
loads_as_armed(p, a) ==
    /\ p.color.some =>
           (p.color.v.load[1] = "Clear" <=> a.clear_next)
    /\ p.depth_stencil.some =>
           /\ p.depth_stencil.v.depth_load[1] = "Clear"
                  <=> a.clear_next_depth_stencil
           /\ p.depth_stencil.v.stencil_load[1] = "Clear"
                  <=> a.clear_next_depth_stencil

\* C15: every pass-creating call returns a pass whose color load op is Clear
\* exactly when schedule_clear_color was called since the previous
\* pass-creating call, and whose depth and stencil load ops are Clear exactly
\* when schedule_clear_depth_stencil was called since then; otherwise Load.
C15_ClearFlagsOneShot ==
    [][ lastOp'.op \in PassOps =>
            /\ ~panicked'
            /\ lastOp'.pass.some
            /\ loads_as_armed(lastOp'.pass.v, armed)
      ]_vars

\* What the three pass-creating calls are claimed to do with resolve_next, in
\* a step from target t to target u by the call op that returned the pass p,
\* schedule_resolve having been called since the previous begin_pass or not
resolves_as_armed(op, t, u, p, resolve_armed) ==
    /\ op = "begin_pass" =>
           /\ p.resolve <=> resolve_armed
           /\ ~u.resolve_next
    /\ op = "begin_resolving_pass" =>
           /\ p.resolve
           /\ u.resolve_next = t.resolve_next
    /\ op = "begin_non_resolving_pass" =>
           /\ ~p.resolve
           /\ u.resolve_next = t.resolve_next
    /\ t.resolve_next <=> resolve_armed
    /\ (p.color.some /\ p.color.v.resolve_target.some) => p.resolve

\* C16: begin_pass returns a resolving pass exactly when schedule_resolve was
\* called since the previous begin_pass, and leaves resolve_next false;
\* begin_resolving_pass and begin_non_resolving_pass return a resolving and a
\* non-resolving pass and leave resolve_next as it was, so that a resolve
\* scheduled before them is taken by the next begin_pass.
C16_BeginPassTakesResolve ==
    [][ lastOp'.op \in PassOps =>
            /\ (lastOp'.op = "begin_pass" /\ armed.resolve_next) => ~panicked'
            /\ ~panicked' =>
                   /\ lastOp'.pass.some
                   /\ resolves_as_armed(lastOp'.op, rt, rt', lastOp'.pass.v,
                                        armed.resolve_next)
      ]_vars

\* The calls that edit the scheduled config
Mutators == {"resize", "set_clear_color", "set_clear_depth", "set_clear_stencil"}

\* The three one-shot flags of a target
flags(t) == <<t.resolve_next, t.clear_next, t.clear_next_depth_stencil>>

\* C17: a resize, set_clear_color, set_clear_depth or set_clear_stencil call
\* leaves the current config, the three texture slots and the three one-shot
\* flags as they were and creates no texture; only the scheduled config may
\* differ afterwards; textures are created by apply calls only.
C17_MutatorsOnlySchedule ==
    [][ /\ lastOp'.op \in Mutators =>
               /\ rt'.current_config = rt.current_config
               /\ slots(rt') = slots(rt)
               /\ flags(rt') = flags(rt)
               /\ allocCount' = allocCount
               /\ [rt' EXCEPT !.scheduled_config = rt.scheduled_config] = rt
        /\ allocCount' # allocCount => lastOp'.op = "apply"
      ]_vars

\* C17 witness: a resize to another size was scheduled on an applied target
\* that holds textures and has all three flags set.
C17_Witness ==
    /\ lastOp.op = "resize"
    /\ ~panicked
    /\ rt.current_config.some
    /\ rt.scheduled_config.some
    /\ rt.scheduled_config.v.size # rt.current_config.v.size
    /\ rt.main_texture.some
    /\ rt.depth_stencil_texture.some
    /\ flags(rt) = <<TRUE, TRUE, TRUE>>

(***************************************************************************)
(* Execution of sequences against the world.  A world w is {targets,       *)
(* sequences, log, panic}; an operation is run for queue position k.       *)
(***************************************************************************)
SequenceIds == {0, 1}

\* SurfaceTargetRes: the first asset added to Assets<RenderTarget>
SurfaceTarget == 0

\* world.with_asset(id, |render_target| render_target.begin_pass(encoder)),
\* done by operation `by`: nothing happens when the asset is missing
with_asset_begin_pass(w, id, by) ==
    IF ~w.targets[id].some THEN w
    ELSE LET r == begin_pass(w.targets[id].v) IN
         [w EXCEPT !.targets[id] = Some(r.t),
                   !.panic = r.panic,
                   !.log = IF r.panic THEN @
                           ELSE Append(@, [ev |-> "pass", target |-> id,
                                           by |-> by, pass |-> r.pass.v])]

\* ClearNext::run
ClearNext_run(w, op) ==
    LET id == op.def.render_target IN
    IF ~w.targets[id].some THEN w
    ELSE [w EXCEPT !.targets[id] = Some(schedule_clear_color(w.targets[id].v))]

\* EmptyPass::run
EmptyPass_run(w, op, k) ==
    with_asset_begin_pass(w, op.def.render_target, <<k, op.builder>>)

\* The targets an operation of another crate reads are bound for sampling
RECURSIVE read_targets(_, _, _)
read_targets(w, rs, by) ==
    IF rs = <<>> THEN w
    ELSE read_targets(
             [w EXCEPT !.log = Append(@,
                 [ev |-> "read", target |-> Head(rs), by |-> by,
                  armed |-> /\ w.targets[Head(rs)].some
                            /\ w.targets[Head(rs)].v.resolve_next])],
             Tail(rs), by)

\* The targets an operation of another crate writes are written, as by
\* EmptyPass, through a pass opened with begin_pass
RECURSIVE write_targets(_, _, _)
write_targets(w, ws, by) ==
    IF ws = <<>> \/ w.panic THEN w
    ELSE write_targets(with_asset_begin_pass(w, Head(ws), by), Tail(ws), by)

\* Operation::run of an operation of another crate
User_run(w, op, k) ==
    write_targets(read_targets(w, op.def.reads, <<k, op.builder>>),
                  op.def.writes, <<k, op.builder>>)

\* Operation::run of an operation of another crate that asks the world it is
\* given for the SequenceQueue, through world.resource_mut (which panics when
\* the world does not hold the resource) or through world.get_resource_mut
\* (which returns None then), and schedules a sequence.  run_sequences holds
\* the queue in a resource_scope, so the world handed to op.run does not
\* hold it.
Scheduler_run(w, op, k) ==
    LET w1 == [w EXCEPT !.log = Append(@, [ev |-> "schedule_attempt",
                                           by |-> <<k, op.builder>>,
                                           access |-> op.def.access])]
    IN IF "sequence_queue" \in DOMAIN w
       THEN [w1 EXCEPT !.sequence_queue = Append(@, op.def.sequence)]
       ELSE IF op.def.access = "resource_mut"
       THEN [w1 EXCEPT !.panic = TRUE]
       ELSE w1

\* SequenceOperation::Run(op) => op.run(world, command_encoder)
run_operation(w, op, k) ==
    LET w1 == [w EXCEPT !.log = Append(@, [ev |-> "run", by |-> <<k, op.builder>>])]
    IN IF op.def.kind = "ClearNext" THEN ClearNext_run(w1, op)
       ELSE IF op.def.kind = "EmptyPass" THEN EmptyPass_run(w1, op, k)
       ELSE IF op.def.kind = "Scheduler" THEN Scheduler_run(w1, op, k)
       ELSE User_run(w1, op, k)

\* Mutant of run_resolve_next: a missing target is skipped
run_resolve_next_skip(w, target, k) ==
    IF ~w.targets[target].some THEN w
    ELSE [w EXCEPT !.targets[target] = Some(schedule_resolve(w.targets[target].v)),
                   !.log = Append(@, [ev |-> "schedule_resolve",
                                      target |-> target, exec |-> k])]

\* SequenceOperation::ResolveNext(target) => .. .expect(..).schedule_resolve()
run_resolve_next(w, target, k) ==
    IF ~w.targets[target].some THEN [w EXCEPT !.panic = TRUE]
    ELSE [w EXCEPT !.targets[target] = Some(schedule_resolve(w.targets[target].v)),
                   !.log = Append(@, [ev |-> "schedule_resolve",
                                      target |-> target, exec |-> k])]

\* for op in ops.iter_mut() { .. } of Sequence::run
RECURSIVE run_steps_loop(_, _, _)
run_steps_loop(w, steps, k) ==
    IF steps = <<>> \/ w.panic THEN w
    ELSE run_steps_loop(
             IF Head(steps).step = "ResolveNext"
             THEN run_resolve_next(w, Head(steps).target, k)
             ELSE run_operation(w, Head(steps).op, k),
             Tail(steps), k)

\* Mutant of Sequence_run: the compiled steps are not stored, the sequence
\* stays UnInitialized
Sequence_run_forgets(w, id, k, p) ==
    LET seq == w.sequences[id].v
        steps == IF seq.state = "UnInitialized"
                 THEN compile_in(seq.builders, p) ELSE seq.ops
        w1 == [w EXCEPT !.log = Append(@, [ev |-> "sequence", id |-> id,
                                           exec |-> k,
                                           compiled |-> seq.state = "UnInitialized"])]
    IN run_steps_loop(w1, steps, k)

\* Mutant of Sequence_run: executing the sequence consumes its first step
Sequence_run_consumes(w, id, k, p) ==
    LET seq == w.sequences[id].v
        steps == IF seq.state = "UnInitialized"
                 THEN compile_in(seq.builders, p) ELSE seq.ops
        w1 == [w EXCEPT !.sequences[id] =
                            Some([state |-> "Ready",
                                  ops |-> IF steps = <<>> THEN steps
                                          ELSE Tail(steps)]),
                        !.log = Append(@, [ev |-> "sequence", id |-> id,
                                           exec |-> k,
                                           compiled |-> seq.state = "UnInitialized"])]
    IN run_steps_loop(w1, steps, k)

\* Sequence::run of sequence id at queue position k; p is the iteration order
\* of the HashSet should the sequence be compiled now
Sequence_run(w, id, k, p) ==
    LET seq == w.sequences[id].v
        steps == IF seq.state = "UnInitialized"
                 THEN compile_in(seq.builders, p) ELSE seq.ops
        w1 == [w EXCEPT !.sequences[id] = Some([state |-> "Ready", ops |-> steps]),
                        !.log = Append(@, [ev |-> "sequence", id |-> id,
                                           exec |-> k,
                                           compiled |-> seq.state = "UnInitialized"])]
    IN run_steps_loop(w1, steps, k)

\* Mutant of queue_loop: an id that already ran in this drain is skipped
RECURSIVE queue_loop_once(_, _, _, _)
queue_loop_once(w, queue, k, ps) ==
    IF k > Len(queue) \/ w.panic THEN w
    ELSE IF ~w.sequences[queue[k]].some THEN [w EXCEPT !.panic = TRUE]
    ELSE IF \E j \in 1..(k - 1) : queue[j] = queue[k]
    THEN queue_loop_once(w, queue, k + 1, ps)
    ELSE queue_loop_once(Sequence_run(w, queue[k], k, ps[queue[k]]),
                         queue, k + 1, ps)

\* for asset_id in &sequence_queue.0 { .. } of run_sequences, from position k
RECURSIVE queue_loop(_, _, _, _)
queue_loop(w, queue, k, ps) ==
    IF k > Len(queue) \/ w.panic THEN w
    ELSE IF ~w.sequences[queue[k]].some THEN [w EXCEPT !.panic = TRUE]
    ELSE queue_loop(Sequence_run(w, queue[k], k, ps[queue[k]]), queue, k + 1, ps)

\* Mutant of run_sequences: the queue is not cleared
run_sequences_keep(w, queue, ps) ==
    LET w1 == [w EXCEPT !.log = Append(@, [ev |-> "create_command_encoder"])]
        w2 == queue_loop(w1, queue, 1, ps)
    IN IF w2.panic THEN [w |-> w2, queue |-> queue]
       ELSE [w |-> [w2 EXCEPT !.log = Append(@, [ev |-> "submit"])],
             queue |-> queue]

\* The loop of run_sequences_unscoped: the queue is read from the world at
\* every iteration
RECURSIVE queue_loop_live(_, _, _)
queue_loop_live(w, k, ps) ==
    IF k > Len(w.sequence_queue) \/ k > 2 * MaxQueue \/ w.panic THEN w
    ELSE IF ~w.sequences[w.sequence_queue[k]].some THEN [w EXCEPT !.panic = TRUE]
    ELSE queue_loop_live(Sequence_run(w, w.sequence_queue[k], k,
                                      ps[w.sequence_queue[k]]),
                         k + 1, ps)

\* Mutant of run_sequences: the queue stays in the world while it is drained
run_sequences_unscoped(w, queue, ps) ==
    LET w1 == [targets |-> w.targets, sequences |-> w.sequences,
               log |-> Append(w.log, [ev |-> "create_command_encoder"]),
               panic |-> w.panic, sequence_queue |-> queue]
        w2 == queue_loop_live(w1, 1, ps)
    IN IF w2.panic THEN [w |-> w2, queue |-> queue]
       ELSE [w |-> [w2 EXCEPT !.log = Append(@, [ev |-> "submit"])],
             queue |-> <<>>]

\* run_sequences, as {w, queue}: one encoder, every queued sequence, the queue
\* cleared, the encoder submitted
run_sequences(w, queue, ps) ==
    LET w1 == [w EXCEPT !.log = Append(@, [ev |-> "create_command_encoder"])]
        w2 == queue_loop(w1, queue, 1, ps)
    IN IF w2.panic THEN [w |-> w2, queue |-> queue]
       ELSE [w |-> [w2 EXCEPT !.log = Append(@, [ev |-> "submit"])],
             queue |-> <<>>]

(***************************************************************************)
(* SpecFrame: the window's event loop.  init_render has added the surface  *)
(* target, the application has added its sequences and at most one         *)
(* offscreen target; then frames are drawn.                                *)
(***************************************************************************)
\* The config of the application's offscreen target: multisampled color
OffscreenConfig ==
    [size |-> <<800, 600>>,
     multisample_config |-> Some(DefaultMultisampleConfig),
     depth_stencil_config |-> NoneV,
     color_config |-> Some(DefaultColorConfig)]

\* impl Default for RenderTargetConfig
DefaultRenderTargetConfig ==
    [size |-> <<1, 1>>, multisample_config |-> NoneV,
     depth_stencil_config |-> Some(DefaultDepthStencilConfig),
     color_config |-> Some(DefaultColorConfig)]

\* The operation builders the application's sequences are made of
FrameBuilders ==
    { [kind |-> "EmptyPass", render_target |-> 1],
      [kind |-> "User", reads |-> <<1>>, writes |-> <<0>>] }

\* The builder lists of at most MaxFrameOps builders
FrameBuilderLists ==
    UNION { [1..n -> FrameBuilders] : n \in 0..MaxFrameOps }

\* SequenceBuilder::finish of a builder list: Sequence { inner: UnInitialized }
UnInitialized(builders) == [state |-> "UnInitialized", builders |-> builders]

\* The sequence of examples/colors.rs
ColorsSequence ==
    UnInitialized(<<[kind |-> "ClearNext", render_target |-> SurfaceTarget],
                    [kind |-> "EmptyPass", render_target |-> SurfaceTarget]>>)

\* A sequence that schedules a clear of the application's offscreen target
ClearOffscreenSequence ==
    UnInitialized(<<[kind |-> "ClearNext", render_target |-> 1]>>)

\* The state after init_render and the application's set-up, the
\* application's second sequence being one of others
InitFrameWith(others) ==
    /\ pc = "idle"
    /\ \E off \in {NoneV, Some(OffscreenConfig)} :
         LET r == apply(new(off.v), NoAllocs) IN
         /\ targets = [id \in TargetIds |->
                          IF id = SurfaceTarget
                          THEN Some(new(DefaultRenderTargetConfig))
                          ELSE IF off.some THEN Some(r.t) ELSE NoneV]
         /\ allocCount = IF off.some THEN r.dev ELSE NoAllocs
    /\ \E bs \in FrameBuilderLists, other \in others :
         sequences = [id \in SequenceIds |->
                         IF id = 0 THEN Some(UnInitialized(bs)) ELSE other]
    /\ sequence_queue = <<>>
    /\ surface_config = <<800, 600>>
    /\ redraw_requested = TRUE
    /\ should_exit = FALSE
    /\ log = <<>>
    /\ nextImage = 0
    /\ panicked = FALSE
    /\ rt = new(CHOOSE c \in InitConfigs : TRUE)
    /\ config0 = CHOOSE c \in InitConfigs : TRUE
    /\ lastOp = [op |-> "new"]
    /\ structChanged = FALSE
    /\ firstApply = "none"
    /\ armed = NotArmed
    /\ sequence_builder = [consumed |-> TRUE]
    /\ inner = [state |-> "Absent"]
    /\ added = <<>>
    /\ NoSearch
    /\ NoAssets

InitFrame == InitFrameWith({NoneV, Some(ColorsSequence)})

FrameUnchanged ==
    UNCHANGED <<rt, lastOp, config0, structChanged, firstApply, armed, seqVars,
                searchVars, assetVars>>

\* The event loop takes the next event, as long as the swapchain has images
Running == pc = "idle" /\ ~panicked /\ ~should_exit /\ nextImage < MaxImages

\* handle_resized
Resized ==
    /\ Running
    /\ \E sz \in Sizes \cup {<<0, 600>>} :
         surface_config' = IF sz[1] = 0 \/ sz[2] = 0 THEN surface_config ELSE sz
    /\ UNCHANGED <<pc, targets, sequences, sequence_queue, redraw_requested,
                   should_exit, log, allocCount, nextImage, panicked>>
    /\ FrameUnchanged

\* Mutant of DrawSetupOutOfMemory: another redraw is requested
DrawSetupOutOfMemory_retries ==
    /\ Running
    /\ redraw_requested
    /\ redraw_requested' = TRUE
    /\ should_exit' = TRUE
    /\ log' = <<[ev |-> "acquire", outcome |-> "OutOfMemory"],
                [ev |-> "request_redraw"]>>
    /\ UNCHANGED <<pc, targets, sequences, sequence_queue, surface_config,
                   allocCount, nextImage, panicked>>
    /\ FrameUnchanged

\* handle_redraw_event, draw_setup: Err(SurfaceError::OutOfMemory)
DrawSetupOutOfMemory ==
    /\ Running
    /\ redraw_requested
    /\ redraw_requested' = FALSE
    /\ should_exit' = TRUE
    /\ log' = <<[ev |-> "acquire", outcome |-> "OutOfMemory"]>>
    /\ UNCHANGED <<pc, targets, sequences, sequence_queue, surface_config,
                   allocCount, nextImage, panicked>>
    /\ FrameUnchanged

\* Mutant of DrawSetupRetry: ShouldDraw is inserted although nothing was
\* acquired
DrawSetupRetry_draws ==
    /\ Running
    /\ redraw_requested
    /\ \E e \in {"Lost", "Outdated", "Timeout"} :
         log' = <<[ev |-> "acquire", outcome |-> e]>>
    /\ redraw_requested' = FALSE
    /\ pc' = "draw"
    /\ UNCHANGED <<targets, sequences, sequence_queue, surface_config,
                   should_exit, allocCount, nextImage, panicked>>
    /\ FrameUnchanged

\* Mutant of DrawSetupRetry: no redraw is requested
DrawSetupRetry_stalls ==
    /\ Running
    /\ redraw_requested
    /\ \E e \in {"Lost", "Outdated", "Timeout"} :
         log' = <<[ev |-> "acquire", outcome |-> e]>>
                \o (IF e = "Timeout" THEN <<>>
                    ELSE <<[ev |-> "configure", size |-> surface_config]>>)
    /\ redraw_requested' = FALSE
    /\ UNCHANGED <<pc, targets, sequences, sequence_queue, surface_config,
                   should_exit, allocCount, nextImage, panicked>>
    /\ FrameUnchanged

\* Mutant of DrawSetupRetry: the surface is never reconfigured
DrawSetupRetry_no_configure ==
    /\ Running
    /\ redraw_requested
    /\ \E e \in {"Lost", "Outdated", "Timeout"} :
         log' = <<[ev |-> "acquire", outcome |-> e], [ev |-> "request_redraw"]>>
    /\ redraw_requested' = TRUE
    /\ UNCHANGED <<pc, targets, sequences, sequence_queue, surface_config,
                   should_exit, allocCount, nextImage, panicked>>
    /\ FrameUnchanged

\* handle_redraw_event, draw_setup: Err(Lost | Outdated) and Err(_)
DrawSetupRetry ==
    /\ Running
    /\ redraw_requested
    /\ \E e \in {"Lost", "Outdated", "Timeout"} :
         log' = <<[ev |-> "acquire", outcome |-> e]>>
                \o (IF e = "Timeout" THEN <<>>
                    ELSE <<[ev |-> "configure", size |-> surface_config]>>)
                \o <<[ev |-> "request_redraw"]>>
    /\ redraw_requested' = TRUE
    /\ UNCHANGED <<pc, targets, sequences, sequence_queue, surface_config,
                   should_exit, allocCount, nextImage, panicked>>
    /\ FrameUnchanged

\* handle_redraw_event, draw_setup: Ok(texture); ShouldDraw is inserted and
\* removed, the PreDraw schedule is started
DrawSetupOk ==
    /\ Running
    /\ redraw_requested
    /\ AllocsLeft
    /\ redraw_requested' = FALSE
    /\ nextImage' = nextImage + 1
    /\ IF ~targets[SurfaceTarget].some
       THEN /\ panicked' = TRUE
            /\ UNCHANGED <<targets, allocCount>>
       ELSE LET r == apply_surface(targets[SurfaceTarget].v,
                                   image(nextImage + 1, surface_config),
                                   allocCount)
            IN /\ targets' = [targets EXCEPT ![SurfaceTarget] = Some(r.t)]
               /\ allocCount' = r.dev
               /\ panicked' = r.panic
    /\ log' = <<[ev |-> "acquire", outcome |-> "Ok"],
                [ev |-> "apply_surface", image |-> nextImage + 1]>>
               \o (IF panicked' THEN <<>> ELSE <<[ev |-> "PreDraw"]>>)
    /\ pc' = "draw"
    /\ UNCHANGED <<sequences, sequence_queue, surface_config, should_exit>>
    /\ FrameUnchanged

\* handle_redraw_event: world.run_and_apply_deferred(Draw), PreDraw being done
RunDraw ==
    /\ pc = "draw"
    /\ ~panicked
    /\ \A i \in 1..Len(log) : log[i].ev # "Draw"
    /\ log' = Append(log, [ev |-> "Draw"])
    /\ UNCHANGED <<pc, targets, sequences, sequence_queue, surface_config,
                   redraw_requested, should_exit, allocCount, nextImage,
                   panicked>>
    /\ FrameUnchanged

\* A system of PreDraw or Draw: SequenceQueue::schedule
Schedule ==
    /\ pc = "draw"
    /\ ~panicked
    /\ Len(sequence_queue) < MaxQueue
    /\ \E id \in SequenceIds : sequence_queue' = Append(sequence_queue, id)
    /\ UNCHANGED <<pc, targets, sequences, surface_config, redraw_requested,
                   should_exit, log, allocCount, nextImage, panicked>>
    /\ FrameUnchanged

\* Mutant of draw_finish: the surface target is not presented
draw_finish_no_present(w) ==
    [w EXCEPT !.log = Append(@, [ev |-> "request_redraw"])]

\* Mutant of draw_finish: the next redraw is requested before the present
draw_finish_redraw_first(w) ==
    LET r == present(w.targets[SurfaceTarget].v) IN
    IF r.panic
    THEN [w EXCEPT !.targets[SurfaceTarget] = Some(r.t), !.panic = TRUE]
    ELSE [w EXCEPT !.targets[SurfaceTarget] = Some(r.t),
                   !.log = @ \o <<[ev |-> "request_redraw"],
                                  [ev |-> "present", image |-> r.presented.v]>>]

\* draw_finish on the world run_sequences left
draw_finish(w) ==
    IF ~w.targets[SurfaceTarget].some
    THEN [w EXCEPT !.log = Append(@, [ev |-> "request_redraw"])]
    ELSE LET r == present(w.targets[SurfaceTarget].v) IN
         IF r.panic
         THEN [w EXCEPT !.targets[SurfaceTarget] = Some(r.t), !.panic = TRUE]
         ELSE [w EXCEPT !.targets[SurfaceTarget] = Some(r.t),
                        !.log = @ \o <<[ev |-> "present", image |-> r.presented.v],
                                       [ev |-> "request_redraw"]>>]

\* handle_redraw_event after Draw: sequence::run_sequences(world);
\* draw_finish(world)
FinishFrame ==
    /\ pc = "draw"
    /\ ~panicked
    /\ \E i \in 1..Len(log) : log[i].ev = "Draw"
    /\ \E ps \in [SequenceIds -> iterations(TargetIds)] :
         LET r == run_sequences([targets |-> targets, sequences |-> sequences,
                                 log |-> log, panic |-> FALSE],
                                sequence_queue, ps)
             w == IF r.w.panic THEN r.w ELSE draw_finish(r.w)
         IN /\ targets' = w.targets
            /\ sequences' = w.sequences
            /\ log' = w.log
            /\ panicked' = w.panic
            /\ sequence_queue' = r.queue
            /\ redraw_requested' = ~w.panic
    /\ pc' = "idle"
    /\ UNCHANGED <<surface_config, should_exit, allocCount, nextImage>>
    /\ FrameUnchanged

NextFrame ==
    \/ Resized
    \/ DrawSetupOutOfMemory
    \/ DrawSetupRetry
    \/ DrawSetupOk
    \/ RunDraw
    \/ Schedule
    \/ FinishFrame

SpecFrame == InitFrame /\ [][NextFrame]_vars

\* The enabling condition of FinishFrame
FinishFrameEnabled ==
    /\ pc = "draw"
    /\ ~panicked
    /\ \E i \in 1..Len(log) : log[i].ev = "Draw"

\* The enabling condition of DrawSetupOk
DrawSetupOkEnabled == Running /\ redraw_requested /\ AllocsLeft

\* SpecFrame for an application whose second sequence schedules a clear of
\* its offscreen target
SpecFrameClear ==
    InitFrameWith({Some(ClearOffscreenSequence)}) /\ [][NextFrame]_vars

\* A sequence whose only operation schedules the application's first
\* sequence when it runs
SchedulerSequences ==
    { Some(UnInitialized(<<[kind |-> "Scheduler", reads |-> <<>>,
                            writes |-> <<>>, sequence |-> 0,
                            access |-> a]>>)) :
        a \in {"resource_mut", "get_resource_mut"} }

\* SpecFrame for an application whose second sequence holds an operation
\* that schedules a sequence while the queue is drained
SpecFrameScheduler ==
    InitFrameWith(SchedulerSequences) /\ [][NextFrame]_vars

\* SpecFrame with the scheduling of the event loop: handle_redraw_event is
\* straight-line code, so it runs Draw and finishes the frame once it has
\* started to draw, and a requested redraw is delivered and its acquisition
\* succeeds sooner or later (failures are transient).  The last two
\* conditions are weak fairness of FinishFrame and of DrawSetupOk written
\* out: the steps of FinishFrame are those that take pc from "draw" to
\* "idle", the steps of DrawSetupOk those that take it from "idle" to "draw".
SpecFrameLive ==
    /\ SpecFrame
    /\ WF_vars(RunDraw)
    /\ ([]<>(~FinishFrameEnabled) \/ []<><<pc = "draw" /\ pc' = "idle">>_vars)
    /\ ([]<>(~DrawSetupOkEnabled) \/ []<><<pc = "idle" /\ pc' = "draw">>_vars)

(***************************************************************************)
(* Claims about a frame.  log holds the events of the current frame in     *)
(* the order they happened.                                                *)
(***************************************************************************)
\* The positions of the log with an event of kind e
Events(e) == { i \in 1..Len(log) : log[i].ev = e }

\* The queue positions of the sequences the frame drained
Execs == { log[i].exec : i \in Events("sequence") }

\* The passes execution k opened on target T: its writes
WritePasses(k, T) ==
    { i \in Events("pass") : log[i].target = T /\ log[i].by[1] = k }

\* The reads of target T by execution k
ReadEvents(k, T) ==
    { i \in Events("read") : log[i].target = T /\ log[i].by[1] = k }

\* The last of a non-empty set of log positions
Last(S) == CHOOSE i \in S : \A j \in S : j <= i

\* A resolving pass on T: created with resolve = true and, T being
\* multisampled, with the resolve target attached
ResolvingPass(i, T) ==
    /\ log[i].ev = "pass"
    /\ log[i].target = T
    /\ log[i].pass.resolve
    /\ log[i].pass.color.some
    /\ log[i].pass.color.v.resolve_target.some

\* T is resolved between its last write at log position j and position n:
\* a resolving pass on T lies in j..n-1 (the last writing pass counts when it
\* is itself resolving)
ResolvedBetween(T, j, n) == \E i \in j..(n - 1) : ResolvingPass(i, T)

\* Target T holds a multisampled texture
Multisampled(T) == targets[T].some /\ targets[T].v.multisampled_texture.some

\* C9: in a frame that reached present, every multisampled target a drained
\* sequence wrote and did not read afterwards in that sequence has a resolving
\* pass between its last write and the present of the frame.
C9_TrailingResolveBeforePresent ==
    \A n \in Events("present") : \A k \in Execs : \A T \in TargetIds :
        ( /\ Multisampled(T)
          /\ WritePasses(k, T) # {}
          /\ \A r \in ReadEvents(k, T) : r < Last(WritePasses(k, T)) )
        => ResolvedBetween(T, Last(WritePasses(k, T)), n)

\* C10: when an operation reads a multisampled target T that the same
\* execution of the sequence wrote before, a resolving pass on T lies between
\* the last such write and the read.
C10_ReadSeesResolved ==
    \A k \in Execs : \A T \in TargetIds : \A r \in ReadEvents(k, T) :
        LET before == { i \in WritePasses(k, T) : i < r } IN
        (Multisampled(T) /\ before # {})
        => ResolvedBetween(T, Last(before), r)

\* The positions of a log l with an event of kind e
EventsOf(l, e) == { i \in 1..Len(l) : l[i].ev = e }

\* The swapchain image the surface target holds, if any
SurfaceImage(ts) ==
    IF ts[SurfaceTarget].some /\ held(ts[SurfaceTarget].v) = "Surface"
    THEN Some(ts[SurfaceTarget].v.main_texture.v.id)
    ELSE NoneV

\* C12: a successful acquisition finds the surface target holding no image
\* and makes it hold the acquired one; the image stays in the target while
\* the application's systems run; a redraw that completes adopted and
\* presented that image exactly once each, in this order, and leaves the
\* target empty; a redraw whose acquisition failed adopts and presents
\* nothing and leaves all targets alone.
C12_ImagePresentedOncePerRedraw ==
    [][ /\ (pc = "idle" /\ pc' = "draw" /\ ~panicked') =>
               /\ SurfaceImage(targets) = NoneV
               /\ nextImage' = nextImage + 1
               /\ SurfaceImage(targets') = Some(<<"surface", nextImage'>>)
        /\ (pc = "draw" /\ pc' = "draw") =>
               SurfaceImage(targets') = SurfaceImage(targets)
        /\ (pc = "draw" /\ pc' = "idle" /\ ~panicked') =>
               /\ SurfaceImage(targets) = Some(<<"surface", nextImage>>)
               /\ SurfaceImage(targets') = NoneV
               /\ \E a, p \in 1..Len(log') :
                      /\ EventsOf(log', "apply_surface") = {a}
                      /\ EventsOf(log', "present") = {p}
                      /\ a < p
                      /\ log'[a].image = nextImage
                      /\ log'[p].image = <<"surface", nextImage>>
        /\ (pc = "idle" /\ pc' = "idle") =>
               /\ targets' = targets
               /\ nextImage' = nextImage
               /\ log' # log =>
                      /\ EventsOf(log', "apply_surface") = {}
                      /\ EventsOf(log', "present") = {}
      ]_vars

\* C12 witness: a second redraw acquired the second image, drained a
\* sequence and presented that image.
C12_Witness ==
    /\ pc = "idle"
    /\ ~panicked
    /\ nextImage > 1
    /\ \E p \in EventsOf(log, "present") :
           log[p].image = <<"surface", nextImage>>
    /\ Len(sequence_queue) = 0
    /\ \E i \in EventsOf(log, "sequence") : TRUE

\* The events of PreDraw, Draw and the drain of the queue
DrawEvents ==
    Events("create_command_encoder") \cup Events("sequence") \cup Events("run")
    \cup Events("pass") \cup Events("read") \cup Events("schedule_resolve")

\* C13: while the application's systems and the queued sequences run, the
\* surface target holds the image acquired in this redraw; everything they
\* do comes after a successful acquisition and its apply_surface and before
\* the present of the same redraw; every pass opened on the surface target
\* renders to the image of this redraw.
C13_DrawOnlyOnAcquiredImage ==
    /\ (pc = "draw" /\ ~panicked) =>
           SurfaceImage(targets) = Some(<<"surface", nextImage>>)
    /\ \A i \in DrawEvents :
           /\ i > 2
           /\ log[1] = [ev |-> "acquire", outcome |-> "Ok"]
           /\ log[2] = [ev |-> "apply_surface", image |-> nextImage]
           /\ \A p \in Events("present") : i < p
    /\ \A i \in Events("pass") :
           log[i].target = SurfaceTarget =>
               /\ log[i].pass.color.some
               /\ log[i].pass.color.v.view = <<"surface", nextImage>>

\* C13 witness: in the second redraw a sequence opened a pass on the surface
\* target.
C13_Witness ==
    /\ nextImage > 1
    /\ ~panicked
    /\ \E i \in Events("pass") : log[i].target = SurfaceTarget

\* The executions of sequence id recorded in a log l
RunsOf(l, id) == { i \in EventsOf(l, "sequence") : l[i].id = id }

\* The step list steps holds exactly one Run step per builder, in order, each
\* with the operation that builder finished into
finished_once(steps, builders) ==
    run_steps(steps) = [n \in 1..Len(builders) |-> Run(finish(builders[n], n))]

\* C19: a Ready sequence stays Ready with the same steps and is never
\* compiled again; an UnInitialized sequence stays as it is until a drain
\* executes it; the drain compiles it at its first execution only, whatever
\* the number of its occurrences in the queue, and the steps hold one
\* finished operation per builder.
C19_CompiledExactlyOnce ==
    [][ \A id \in SequenceIds :
          sequences[id].some =>
            LET runs == RunsOf(log', id)
                drained == pc = "draw" /\ pc' = "idle" /\ runs # {}
            IN /\ sequences'[id].some
               /\ sequences[id].v.state = "Ready" =>
                      /\ sequences'[id] = sequences[id]
                      /\ drained => \A i \in runs : ~log'[i].compiled
               /\ sequences[id].v.state = "UnInitialized" =>
                      IF drained
                      THEN /\ sequences'[id].v.state = "Ready"
                           /\ finished_once(sequences'[id].v.ops,
                                            sequences[id].v.builders)
                           /\ \A i \in runs :
                                  log'[i].compiled <=> (\A j \in runs : i <= j)
                      ELSE sequences'[id] = sequences[id]
      ]_vars

\* C19 witness: the second redraw executed twice a sequence of two builders
\* that the first redraw had compiled.
C19_Witness ==
    /\ nextImage > 1
    /\ ~panicked
    /\ \E id \in SequenceIds :
           /\ Cardinality(RunsOf(log, id)) > 1
           /\ \A i \in RunsOf(log, id) : ~log[i].compiled
           /\ Len(run_steps(sequences[id].v.ops)) > 1

\* The executions of sequences recorded in a log l, in order
executions(l) == SelectSeq(l, LAMBDA e : e.ev = "sequence")

\* The builders whose operations execution k ran, in order, as recorded in l
operations_run(l, k) ==
    LET runs == SelectSeq(l, LAMBDA e : e.ev = "run" /\ e.by[1] = k)
    IN [i \in 1..Len(runs) |-> runs[i].by[2]]

\* C20: schedule appends to the queue and nothing else adds to it; a drain
\* that completes executes one sequence per queue position, in queue order,
\* the sequence whose id is at that position, running each of its operations
\* once, and empties the queue; a drain that panics has executed a prefix of
\* the queue.
C20_DrainInScheduleOrder ==
    [][ /\ sequence_queue' # sequence_queue =>
               \/ /\ pc = "draw" /\ pc' = "draw"
                  /\ \E id \in SequenceIds :
                         sequence_queue' = Append(sequence_queue, id)
               \/ /\ pc = "draw" /\ pc' = "idle" /\ ~panicked'
                  /\ sequence_queue' = <<>>
        /\ (pc = "draw" /\ pc' = "idle") =>
               LET done == executions(log') IN
               /\ Len(done) <= Len(sequence_queue)
               /\ ~panicked' => Len(done) = Len(sequence_queue)
               /\ \A k \in 1..Len(done) :
                      /\ done[k].id = sequence_queue[k]
                      /\ done[k].exec = k
                      /\ (~panicked' \/ k < Len(done)) =>
                             operations_run(log', k) =
                                 [n \in 1..Len(run_steps(
                                        sequences'[done[k].id].v.ops)) |-> n]
      ]_vars

\* C20 witness: a drain executed sequence 1 and then sequence 0, as they
\* were scheduled, and each ran operations.
C20_Witness ==
    /\ pc = "idle"
    /\ ~panicked
    /\ Len(executions(log)) = 2
    /\ executions(log)[1].id = 1
    /\ executions(log)[2].id = 0
    /\ operations_run(log, 1) # <<>>
    /\ operations_run(log, 2) # <<>>

\* What a drain recorded: the events of the sequences it ran
Recorded(l) ==
    EventsOf(l, "sequence") \cup EventsOf(l, "run") \cup EventsOf(l, "pass")
    \cup EventsOf(l, "read") \cup EventsOf(l, "schedule_resolve")

\* C21: a drain creates exactly one command encoder; a drain that completes
\* executed as many sequences as the queue held, all of them after the
\* creation of the encoder and before its one submission, and leaves the
\* queue empty; a redraw that does not draw creates and submits nothing; the
\* queue is empty whenever a redraw is awaited, so that a drain executes only
\* what was scheduled since the previous drain.
C21_OneEncoderQueueCleared ==
    [][ /\ (pc = "draw" /\ pc' = "idle") =>
               /\ Cardinality(EventsOf(log', "create_command_encoder")) = 1
               /\ ~panicked' =>
                      /\ Cardinality(EventsOf(log', "submit")) = 1
                      /\ Len(executions(log')) = Len(sequence_queue)
                      /\ \A e \in EventsOf(log', "create_command_encoder") :
                         \A s \in EventsOf(log', "submit") :
                         \A i \in Recorded(log') : e < i /\ i < s
                      /\ sequence_queue' = <<>>
        /\ (pc = "idle" /\ ~panicked) => sequence_queue = <<>>
        /\ (pc = "idle" /\ pc' = "idle" /\ log' # log) =>
               /\ EventsOf(log', "create_command_encoder") = {}
               /\ EventsOf(log', "submit") = {}
               /\ Recorded(log') = {}
      ]_vars

\* C21 witness: the second redraw drained a queue of two sequences into one
\* encoder, submitted it and left the queue empty.
C21_Witness ==
    /\ pc = "idle"
    /\ ~panicked
    /\ nextImage > 1
    /\ Len(executions(log)) = 2
    /\ EventsOf(log, "submit") # {}
    /\ sequence_queue = <<>>

\* The steps of a redraw that draws, in the order handle_redraw_event takes
\* them
FrameSteps ==
    <<"apply_surface", "PreDraw", "Draw", "create_command_encoder", "submit",
      "present", "request_redraw">>

\* The steps of FrameSteps a log l records, in the order they happened
steps_done(l) ==
    LET es == SelectSeq(l, LAMBDA e :
                  \E n \in 1..Len(FrameSteps) : e.ev = FrameSteps[n])
    IN [i \in 1..Len(es) |-> es[i].ev]

\* C22: the steps of a redraw whose acquisition succeeded are an initial part
\* of apply_surface, PreDraw, Draw, creation of the encoder, submit, present,
\* request_redraw, each at most once and in this order; the adopted image is
\* the acquired one; while the application's systems run the redraw stands
\* after PreDraw or Draw and before the drain; a redraw that completes took
\* all seven steps.
C22_FrameStepsInOrder ==
    (log # <<>> /\ log[1] = [ev |-> "acquire", outcome |-> "Ok"]) =>
        /\ Len(steps_done(log)) <= Len(FrameSteps)
        /\ steps_done(log) = SubSeq(FrameSteps, 1, Len(steps_done(log)))
        /\ Len(log) > 1
        /\ log[2] = [ev |-> "apply_surface", image |-> nextImage]
        /\ (pc = "draw" /\ ~panicked) => Len(steps_done(log)) \in {2, 3}
        /\ (pc = "idle" /\ ~panicked) => steps_done(log) = FrameSteps

\* C22 witness: the second redraw drained a sequence that opened a pass and
\* took all seven steps.
C22_Witness ==
    /\ pc = "idle"
    /\ ~panicked
    /\ nextImage > 1
    /\ steps_done(log) = FrameSteps
    /\ EventsOf(log, "pass") # {}

\* The acquisition of the redraw a log l belongs to failed with outcome o
AcquireFailed(l, o) == l # <<>> /\ l[1] = [ev |-> "acquire", outcome |-> o]

\* C23: handling a redraw raises the exit signal exactly when the acquisition
\* fails with out-of-memory; the redraw of such an acquisition adopts no image, runs no
\* phase and no sequence, creates and submits no encoder, presents nothing,
\* requests no redraw, and leaves the targets, the sequences, the queue and
\* the surface configuration as they were.
C23_OutOfMemoryAborts ==
    [][ /\ should_exit' # should_exit =>
               /\ should_exit'
               /\ AcquireFailed(log', "OutOfMemory")
        /\ (log' # log /\ AcquireFailed(log', "OutOfMemory")) =>
               /\ should_exit'
               /\ log' = <<[ev |-> "acquire", outcome |-> "OutOfMemory"]>>
               /\ ~redraw_requested'
               /\ pc' = "idle"
               /\ ~panicked'
               /\ targets' = targets
               /\ sequences' = sequences
               /\ sequence_queue' = sequence_queue
               /\ surface_config' = surface_config
               /\ nextImage' = nextImage
               /\ allocCount' = allocCount
      ]_vars

\* C23 witness: after a redraw that drew and presented, the acquisition of
\* the next redraw failed with out-of-memory and the exit signal is raised.
C23_Witness ==
    /\ should_exit
    /\ nextImage > 0
    /\ AcquireFailed(log, "OutOfMemory")
    /\ ~redraw_requested
    /\ targets[SurfaceTarget].v.current_config.some

\* C24: a redraw whose acquisition failed with lost or outdated reconfigures
\* the surface with the current surface configuration and then requests a
\* redraw; one whose acquisition failed with another error that is not
\* out-of-memory only requests a redraw; both adopt no image, run no phase
\* and no sequence, present nothing, raise no exit signal and leave the
\* targets, the sequences and the queue as they were.
C24_RecoverableAcquireRetries ==
    [][ \A e \in {"Lost", "Outdated", "Timeout"} :
          (log' # log /\ AcquireFailed(log', e)) =>
               /\ log' = <<[ev |-> "acquire", outcome |-> e]>>
                         \o (IF e \in {"Lost", "Outdated"}
                             THEN <<[ev |-> "configure", size |-> surface_config]>>
                             ELSE <<>>)
                         \o <<[ev |-> "request_redraw"]>>
               /\ redraw_requested'
               /\ ~should_exit'
               /\ pc' = "idle"
               /\ ~panicked'
               /\ targets' = targets
               /\ sequences' = sequences
               /\ sequence_queue' = sequence_queue
               /\ surface_config' = surface_config
               /\ nextImage' = nextImage
               /\ allocCount' = allocCount
      ]_vars

\* C24 witness: after a redraw that drew, the acquisition of the next redraw
\* failed with outdated; the surface was reconfigured to the size of a resize
\* event and a redraw is requested.
C24_Witness ==
    /\ nextImage > 0
    /\ AcquireFailed(log, "Outdated")
    /\ \E i \in EventsOf(log, "configure") : log[i].size # <<800, 600>>
    /\ redraw_requested
    /\ ~should_exit

\* C24 witness of the other errors: the acquisition failed with a timeout and
\* a redraw is requested without a reconfiguration.
C24_WitnessOther ==
    /\ AcquireFailed(log, "Timeout")
    /\ EventsOf(log, "configure") = {}
    /\ redraw_requested

\* A redraw is requested and the event loop can serve it with image n + 1
Awaiting(n) ==
    /\ Running
    /\ redraw_requested
    /\ AllocsLeft
    /\ nextImage = n

\* The redraw that acquired image n completed: the image was presented
Drawn(n) ==
    /\ pc = "idle"
    /\ nextImage = n
    /\ \E p \in Events("present") : log[p].image = <<"surface", n>>

\* C25: between redraws a redraw is requested unless the exit signal was
\* raised or a panic ended the program (so every handled redraw that did not
\* fail with out-of-memory ended with a request); and, acquisition failures
\* being transient, a requested redraw leads to a redraw that draws and
\* presents the next image, unless an out-of-memory acquisition raises the
\* exit signal or a missing id panics first.
C25_RedrawLoopNeverStalls ==
    /\ []((pc = "idle" /\ ~panicked /\ ~should_exit) => redraw_requested)
    /\ \A n \in 0..(MaxImages - 1) :
           Awaiting(n) ~> (Drawn(n + 1) \/ panicked \/ should_exit)

\* C25 witness: the acquisition of the redraw after a drawn frame failed with
\* lost, a redraw is requested and the event loop can serve it.
C25_Witness ==
    /\ AcquireFailed(log, "Lost")
    /\ \E n \in 1..(MaxImages - 1) : Awaiting(n)

\* C25 witness of the recovery: a redraw drew and presented the second image.
C25_WitnessDrawn == Drawn(2) /\ ~panicked

\* The queue q names a sequence that is not in the asset table ss
MissingSequence(q, ss) == \E k \in 1..Len(q) : ~ss[q[k]].some

\* A sequence the drain executed, as recorded in l, has in the asset table ss
\* a ResolveNext step naming a target that is not in the asset table ts
MissingResolveTarget(l, ss, ts) ==
    \E i \in EventsOf(l, "sequence") :
        LET steps == ss[l[i].id].v.ops IN
        \E n \in 1..Len(steps) :
            steps[n].step = "ResolveNext" /\ ~ts[steps[n].target].some

\* C26: a drain whose queue names a missing sequence, or that executes a
\* sequence with a ResolveNext step naming a missing target, panics; a drain
\* panics for no other reason; after a panic of the drain the encoder is not
\* submitted, nothing is presented, no redraw is requested and the queue is
\* not cleared.
C26_MissingIdInDrainPanics ==
    [][ (pc = "draw" /\ pc' = "idle") =>
          /\ panicked' <=>
                 \/ MissingSequence(sequence_queue, sequences)
                 \/ MissingResolveTarget(log', sequences', targets)
          /\ panicked' =>
                 /\ EventsOf(log', "submit") = {}
                 /\ EventsOf(log', "present") = {}
                 /\ EventsOf(log', "request_redraw") = {}
                 /\ ~redraw_requested'
                 /\ sequence_queue' = sequence_queue
                 /\ SurfaceImage(targets') = SurfaceImage(targets)
      ]_vars

\* C26 witness: a drain whose queued sequences all exist panicked at a
\* ResolveNext step naming a missing target, after it had run an operation.
C26_Witness ==
    /\ panicked
    /\ ~MissingSequence(sequence_queue, sequences)
    /\ MissingResolveTarget(log, sequences, targets)
    /\ EventsOf(log, "run") # {}
    /\ EventsOf(log, "submit") = {}

\* C26 witness of the other lookup: a drain executed a sequence and panicked
\* at the next queue entry, which names a missing sequence.
C26_WitnessSequence ==
    /\ panicked
    /\ MissingSequence(sequence_queue, sequences)
    /\ EventsOf(log, "sequence") # {}
    /\ EventsOf(log, "submit") = {}

\* A drain, as recorded in l, ran a ClearNext or EmptyPass operation of a
\* sequence of the asset table ss whose target is not in the asset table ts
RanOnMissingTarget(l, ss, ts) ==
    \E i \in EventsOf(l, "run") : \E j \in EventsOf(l, "sequence") :
        /\ l[j].exec = l[i].by[1]
        /\ LET steps == ss[l[j].id].v.ops IN
           \E n \in 1..Len(steps) :
               /\ steps[n].step = "Run"
               /\ steps[n].op.builder = l[i].by[2]
               /\ steps[n].op.def.kind \in {"ClearNext", "EmptyPass"}
               /\ ~ts[steps[n].op.def.render_target].some

\* C27: a drain that runs a ClearNext or EmptyPass operation whose target id
\* is not in the asset table panics instead of skipping the operation.
C27_MissingTargetLookupPanics ==
    [][ (pc = "draw" /\ pc' = "idle") =>
          (RanOnMissingTarget(log', sequences', targets) => panicked')
      ]_vars

(***************************************************************************)
(* modula_utils: binsearch and binsearch_upwards.  A Result is {ok, at}:   *)
(* Ok or Err, and the argument f was called with to produce it.            *)
(***************************************************************************)
\* i32::MAX
I32_MAX == 2147483647

\* The closures searched: Err below the threshold t, Ok from t upward
f(t, x) == [ok |-> x >= t, at |-> x]

\* while range.start < range.end { .. } of binsearch; res is the last result
RECURSIVE binsearch_loop(_, _, _, _)
binsearch_loop(t, start, end, res) ==
    IF start < end
    THEN LET mid == (start + end) \div 2
             r == f(t, mid)
         IN IF r.ok
            THEN binsearch_loop(t, start, mid, Some(r))
            ELSE binsearch_loop(t, mid + 1, end, Some(r))
    ELSE res

\* binsearch(f, start..end) for f of threshold t: panics on an empty range,
\* else res.unwrap()
binsearch(t, start, end) ==
    IF start >= end
    THEN [panic |-> TRUE, res |-> NoneV]
    ELSE LET res == binsearch_loop(t, start, end, NoneV)
         IN [panic |-> ~res.some, res |-> res]

\* loop { .. } of binsearch_upwards: the i it breaks with, or the result it
\* returns.  The closures searched are Ok within MaxValue of start, so i
\* stays far below the overflow of i *= 2.
RECURSIVE upwards_loop(_, _, _)
upwards_loop(t, start, i) ==
    LET res == f(t, start + i - 1) IN
    IF res.ok THEN [returned |-> FALSE, i |-> i]
    ELSE IF 2 * i = I32_MAX THEN [returned |-> TRUE, res |-> res]
    ELSE upwards_loop(t, start, 2 * i)

\* binsearch_upwards(f, start) for f of threshold t
binsearch_upwards(t, start) ==
    LET l == upwards_loop(t, start, 1) IN
    IF l.returned THEN [panic |-> FALSE, res |-> Some(l.res)]
    ELSE binsearch(t, start + (l.i \div 4), start + (l.i \div 2))

\* The values the searches are called with
Values == 0..MaxValue

InitSearch ==
    /\ NoSearch
    /\ NoAssets
    /\ rt = new(CHOOSE c \in InitConfigs : TRUE)
    /\ config0 = CHOOSE c \in InitConfigs : TRUE
    /\ allocCount = NoAllocs
    /\ nextImage = 0
    /\ panicked = FALSE
    /\ lastOp = [op |-> "new"]
    /\ structChanged = FALSE
    /\ firstApply = "none"
    /\ armed = NotArmed
    /\ sequence_builder = [consumed |-> TRUE]
    /\ inner = [state |-> "Absent"]
    /\ added = <<>>
    /\ NoFrame

\* binsearch is called with a closure of threshold t and the range start..end
Binsearch ==
    /\ \E t \in Values, start \in Values, end \in Values :
         /\ call' = [fn |-> "binsearch", threshold |-> t, start |-> start,
                     end |-> end]
         /\ result' = binsearch(t, start, end)
    /\ UNCHANGED <<rtVars, seqVars, frameVars, assetVars>>

\* binsearch_upwards is called with a closure of threshold t and with start
BinsearchUpwards ==
    /\ \E t \in Values, start \in Values :
         /\ call' = [fn |-> "binsearch_upwards", threshold |-> t,
                     start |-> start]
         /\ result' = binsearch_upwards(t, start)
    /\ UNCHANGED <<rtVars, seqVars, frameVars, assetVars>>

NextSearch ==
    \/ Binsearch
    \/ BinsearchUpwards

SpecSearch == InitSearch /\ [][NextSearch]_vars

(***************************************************************************)
(* Claims about the searches, checked under SpecSearch.                    *)
(***************************************************************************)
\* The lowest value from start upward at which a closure of threshold t is Ok
lowest_ok(t, start) == IF t > start THEN t ELSE start

\* C28: binsearch on a non-empty range that holds a value at which the
\* closure is Ok does not panic and returns the closure's Ok result at the
\* lowest such value of the range.
C28_BinsearchLowestOk ==
    ( /\ call.fn = "binsearch"
      /\ call.start < call.end
      /\ lowest_ok(call.threshold, call.start) < call.end )
    => /\ ~result.panic
       /\ result.res = Some([ok |-> TRUE,
                             at |-> lowest_ok(call.threshold, call.start)])

\* C29: binsearch_upwards from start with a closure whose threshold is at or
\* above start does not panic and returns the closure's Ok result at the
\* threshold.
C29_BinsearchUpwardsLowestOk ==
    ( /\ call.fn = "binsearch_upwards"
      /\ call.threshold >= call.start )
    => /\ ~result.panic
       /\ result.res = Some([ok |-> TRUE, at |-> call.threshold])

(***************************************************************************)
(* Editing the scheduled config field by field.  The fields of             *)
(* RenderTargetConfig and of its sub-configs are public, and               *)
(* scheduled_config_mut hands out the config to assign them.  The target   *)
(* of this run is never given a swapchain image.                           *)
(***************************************************************************)
\* Assignments to the scheduled config between two applies
MaxEdits == 1

\* Option<RenderTargetColorConfig>: none, the default, and the default with
\* one field set to another value
ColorConfigs ==
    {NoneV, Some(DefaultColorConfig)} \cup
    { Some([DefaultColorConfig EXCEPT !.clear_color = c]) : c \in ClearColors }
    \cup { Some([DefaultColorConfig EXCEPT !.usages = u]) : u \in UsageSets }
    \cup { Some([DefaultColorConfig EXCEPT !.format = fm]) : fm \in ColorFormats }

\* Option<RenderTargetDepthStencilConfig>: none, the default, and the default
\* with one field set to another value
DepthStencilConfigs ==
    {NoneV, Some(DefaultDepthStencilConfig)} \cup
    { Some([DefaultDepthStencilConfig EXCEPT !.clear_depth = d]) :
        d \in ClearDepths }
    \cup { Some([DefaultDepthStencilConfig EXCEPT !.clear_stencil = s]) :
             s \in ClearStencils }
    \cup { Some([DefaultDepthStencilConfig EXCEPT !.usages = u]) :
             u \in UsageSets }
    \cup { Some([DefaultDepthStencilConfig EXCEPT !.format = fm]) :
             fm \in DepthFormats }

\* Option<RenderTargetMultisampleConfig>
MultisampleConfigs ==
    {NoneV} \cup { Some([sample_count |-> n]) : n \in SampleCounts }

\* target.scheduled_config_mut().color_config = v
set_color_config(t, v) ==
    LET r == scheduled_config_mut(t) IN
    IF r.panic THEN r
    ELSE [t |-> [r.t EXCEPT !.scheduled_config.v.color_config = v],
          panic |-> FALSE]

\* target.scheduled_config_mut().depth_stencil_config = v
set_depth_stencil_config(t, v) ==
    LET r == scheduled_config_mut(t) IN
    IF r.panic THEN r
    ELSE [t |-> [r.t EXCEPT !.scheduled_config.v.depth_stencil_config = v],
          panic |-> FALSE]

\* target.scheduled_config_mut().multisample_config = v
set_multisample_config(t, v) ==
    LET r == scheduled_config_mut(t) IN
    IF r.panic THEN r
    ELSE [t |-> [r.t EXCEPT !.scheduled_config.v.multisample_config = v],
          panic |-> FALSE]

\* The assignments made since the last apply
edits == IF "edits" \in DOMAIN lastOp THEN lastOp.edits ELSE 0

\* The sub-config an assignment replaces (none yet on a poisoned target)
replaced(t, field) ==
    IF current_config_panics(t) /\ ~t.scheduled_config.some THEN NoneV
    ELSE IF field = "color" THEN pending(t).color_config
    ELSE IF field = "multisample" THEN pending(t).multisample_config
    ELSE pending(t).depth_stencil_config

Edited(r, field, v) ==
    /\ edits < MaxEdits
    /\ v # replaced(rt, field)
    /\ Mutated(r, [op |-> "edit", field |-> field, edits |-> edits + 1])

SetColorConfig ==
    /\ ~panicked
    /\ \E v \in ColorConfigs : Edited(set_color_config(rt, v), "color", v)

SetDepthStencilConfig ==
    /\ ~panicked
    /\ \E v \in DepthStencilConfigs :
           Edited(set_depth_stencil_config(rt, v), "depth_stencil", v)

SetMultisampleConfig ==
    /\ ~panicked
    /\ \E v \in MultisampleConfigs :
           Edited(set_multisample_config(rt, v), "multisample", v)

\* A target constructed at (800, 600) with the default sub-configs
InitConfig ==
    /\ InitRT
    /\ config0 = [size |-> <<800, 600>>,
                  multisample_config |-> Some(DefaultMultisampleConfig),
                  depth_stencil_config |-> Some(DefaultDepthStencilConfig),
                  color_config |-> Some(DefaultColorConfig)]

NextConfig ==
    \/ SetColorConfig
    \/ SetDepthStencilConfig
    \/ SetMultisampleConfig
    \/ Apply

SpecConfig == InitConfig /\ [][NextConfig]_vars

(***************************************************************************)
(* Claims about edited configs, checked under SpecConfig.                  *)
(***************************************************************************)
\* The texture slot of an axis
slot(t, a) ==
    IF a = "color" THEN t.main_texture
    ELSE IF a = "multisample" THEN t.multisampled_texture
    ELSE t.depth_stencil_texture

\* Whether config sch differs from config cur in what the claim names as the
\* own setting of axis a: usages of the color config; sample count or
\* presence of the multisample config; usages or format of the depth-stencil
\* config (a sub-config that appears or disappears changes its axis)
own_setting_changed(cur, sch, a) ==
    IF a = "color"
    THEN \/ cur.color_config.some # sch.color_config.some
         \/ /\ cur.color_config.some
            /\ cur.color_config.v.usages # sch.color_config.v.usages
    ELSE IF a = "multisample"
    THEN cur.multisample_config # sch.multisample_config
    ELSE \/ cur.depth_stencil_config.some # sch.depth_stencil_config.some
         \/ /\ cur.depth_stencil_config.some
            /\ \/ cur.depth_stencil_config.v.usages
                      # sch.depth_stencil_config.v.usages
               \/ cur.depth_stencil_config.v.format
                      # sch.depth_stencil_config.v.format

\* C31: on an apply after the first that leaves the size unchanged, the slot
\* of an axis is replaced exactly when the scheduled config differs from the
\* current one in that axis' own setting; a change of clear color, clear
\* depth or clear stencil alone replaces no slot.
C31_SlotFollowsOwnAxis ==
    [][ (lastOp'.op = "apply" /\ firstApply # "none") =>
            \A a \in Axes :
                (slot(rt', a) # slot(rt, a)) <=>
                    /\ rt.current_config.some
                    /\ rt.scheduled_config.some
                    /\ rt.current_config.v.size = rt.scheduled_config.v.size
                    /\ own_setting_changed(rt.current_config.v,
                                           rt.scheduled_config.v, a)
      ]_vars

\* C31 witness: after the first apply created all three textures, a later
\* apply replaced the depth-stencil texture and nothing else.
C31_Witness ==
    /\ lastOp.op = "apply"
    /\ ~panicked
    /\ rt.main_texture.some /\ rt.main_texture.v.id = <<"color", 1>>
    /\ rt.multisampled_texture.some
    /\ rt.multisampled_texture.v.id = <<"multisample", 1>>
    /\ rt.depth_stencil_texture.some
    /\ rt.depth_stencil_texture.v.id = <<"depth_stencil", 2>>

\* The slot of axis a holds a texture created by this step at the size of cfg
created_at(t, u, dev, cfg, a) ==
    /\ slot(u, a).some
    /\ slot(u, a).v.inner = "Normal"
    /\ slot(u, a).v.id = <<a, dev[a] + 1>>
    /\ slot(u, a).v.size = cfg.size

\* C32: the first apply of a target creates a texture for every sub-config
\* its config has; a later apply whose scheduled size differs from the
\* current size creates, at the new size, a texture for every sub-config the
\* scheduled config has.
C32_FirstApplyAndResizeRecreateAll ==
    [][ lastOp'.op = "apply" =>
            /\ (firstApply = "none" /\ rt.scheduled_config.some) =>
                   \A a \in Axes :
                       axis_present(rt.scheduled_config.v, a) =>
                           created_at(rt, rt', allocCount,
                                      rt.scheduled_config.v, a)
            /\ ( /\ rt.current_config.some
                 /\ rt.scheduled_config.some
                 /\ rt.current_config.v.size # rt.scheduled_config.v.size ) =>
                   \A a \in Axes :
                       axis_present(rt.scheduled_config.v, a) =>
                           created_at(rt, rt', allocCount,
                                      rt.scheduled_config.v, a)
      ]_vars

\* C33: on an apply after the first, a scheduled config that differs from
\* the current one only in the color format leaves the main texture as it
\* is, while one that differs only in the depth-stencil format puts a newly
\* created texture of the new format into the depth-stencil slot.
C33_FormatAsymmetry ==
    [][ ( /\ lastOp'.op = "apply"
          /\ firstApply # "none"
          /\ rt.current_config.some
          /\ rt.scheduled_config.some ) =>
            LET cur == rt.current_config.v
                sch == rt.scheduled_config.v
            IN /\ ( /\ cur.color_config.some
                    /\ \E fm \in ColorFormats \ {cur.color_config.v.format} :
                           sch = [cur EXCEPT !.color_config.v.format = fm] ) =>
                      /\ rt'.main_texture = rt.main_texture
                      /\ allocCount' = allocCount
               /\ ( /\ cur.depth_stencil_config.some
                    /\ \E fm \in DepthFormats
                                   \ {cur.depth_stencil_config.v.format} :
                           sch = [cur EXCEPT
                                      !.depth_stencil_config.v.format = fm] ) =>
                      /\ created_at(rt, rt', allocCount, sch, "depth_stencil")
                      /\ rt'.depth_stencil_texture.v.format =
                             sch.depth_stencil_config.v.format
      ]_vars

\* C33 witness: applies have taken a change of the color format and a change
\* of the depth-stencil format; the main texture is still the first one, in
\* the old format, and the depth-stencil texture is a second one in the new
\* format.
C33_Witness ==
    /\ lastOp.op = "apply"
    /\ ~panicked
    /\ rt.current_config.some
    /\ rt.current_config.v.color_config.some
    /\ rt.current_config.v.color_config.v.format = "Bgra8UnormSrgb"
    /\ rt.main_texture.some
    /\ rt.main_texture.v.id = <<"color", 1>>
    /\ rt.main_texture.v.format = "Rgba8UnormSrgb"
    /\ rt.current_config.v.depth_stencil_config.some
    /\ rt.current_config.v.depth_stencil_config.v.format = "Depth32Float"
    /\ rt.depth_stencil_texture.some
    /\ rt.depth_stencil_texture.v.id = <<"depth_stencil", 2>>
    /\ rt.depth_stencil_texture.v.format = "Depth32Float"

\* C36: after every apply on a target that was never given a swapchain
\* image, current_config() returns a config and each texture slot is set
\* exactly when that config has the corresponding sub-config.
C36_SlotsMatchSubConfigs ==
    [][ lastOp'.op = "apply" =>
            /\ ~current_config_panics(rt')
            /\ \A a \in Axes :
                   slot(rt', a).some <=> axis_present(current_config(rt'), a)
      ]_vars

\* C37: after every apply and apply_surface that returns on a target with a
\* current config, owned or surface-backed, every texture slot that is set
\* holds a texture of the dimensions current_config().size; this includes an
\* apply that refused to recreate a surface-backed color texture after a
\* resize.
C37_SlotSizesMatchConfig ==
    [][ ( /\ lastOp'.op \in {"apply", "apply_surface"}
          /\ ~panicked'
          /\ ~current_config_panics(rt') ) =>
            \A a \in Axes :
                slot(rt', a).some => slot(rt', a).v.size = size(rt')
      ]_vars

(***************************************************************************)
(* Further claims about the drain, checked under SpecFrame.                *)
(***************************************************************************)
\* What execution k did step by step, as recorded in a log l: the operations
\* it ran and the resolves it scheduled, in order
steps_taken(l, k) ==
    SelectSeq(l, LAMBDA e :
                  \/ e.ev = "run" /\ e.by[1] = k
                  \/ e.ev = "schedule_resolve" /\ e.exec = k)

\* What an execution at queue position k of the step list records
steps_of(list, k) ==
    [i \in 1..Len(list) |->
        IF list[i].step = "ResolveNext"
        THEN [ev |-> "schedule_resolve", target |-> list[i].target, exec |-> k]
        ELSE [ev |-> "run", by |-> <<k, list[i].op.builder>>]]

\* C34: a compiled sequence keeps its step list, same length and same order,
\* through every step of the program; every execution that runs to its end
\* takes the steps of that list in order, each Run step's operation once.
C34_ExecutionFollowsSteps ==
    [][ /\ \A id \in SequenceIds :
               (sequences[id].some /\ sequences[id].v.state = "Ready") =>
                   sequences'[id] = sequences[id]
        /\ (pc = "draw" /\ pc' = "idle") =>
               LET done == executions(log') IN
               \A k \in 1..Len(done) :
                   (~panicked' \/ k < Len(done)) =>
                       steps_taken(log', k) =
                           steps_of(sequences'[done[k].id].v.ops, k)
      ]_vars

\* C34 witness: a redraw after the first executed twice a sequence compiled
\* earlier, whose steps include an operation and a resolve.
C34_Witness ==
    /\ pc = "idle"
    /\ ~panicked
    /\ nextImage > 1
    /\ LET done == executions(log) IN
       \E j, k \in 1..Len(done) :
           /\ j < k
           /\ done[j].id = done[k].id
           /\ ~done[j].compiled
           /\ LET list == sequences[done[k].id].v.ops IN
              /\ \E i \in 1..Len(list) : list[i].step = "Run"
              /\ \E i \in 1..Len(list) : list[i].step = "ResolveNext"
              /\ steps_taken(log, j) = steps_of(list, j)
              /\ steps_taken(log, k) = steps_of(list, k)

\* The attempts to schedule made by operations, as recorded in a log l
attempts(l) == { i \in 1..Len(l) : l[i].ev = "schedule_attempt" }

\* C35: the sequences a drain executes are those that were in the queue when
\* the drain began, in order (a prefix of them when the drain panics); an
\* operation that schedules during the drain through resource_mut ends the
\* drain with a panic, and no attempt adds to the queue: the queue is empty
\* after a drain that completes and as it was after one that panics.
C35_DrainNotReentrant ==
    [][ (pc = "draw" /\ pc' = "idle") =>
            LET done == executions(log') IN
            /\ Len(done) <= Len(sequence_queue)
            /\ \A k \in 1..Len(done) : done[k].id = sequence_queue[k]
            /\ ~panicked' =>
                   /\ Len(done) = Len(sequence_queue)
                   /\ sequence_queue' = <<>>
            /\ panicked' => sequence_queue' = sequence_queue
            /\ (\E i \in attempts(log') : log'[i].access = "resource_mut")
                   => panicked'
      ]_vars

\* C35 witness: a drain ran an operation that tried to schedule through
\* get_resource_mut, and completed.
C35_Witness ==
    /\ pc = "idle"
    /\ ~panicked
    /\ attempts(log) # {}
    /\ Len(executions(log)) > 1
    /\ sequence_queue = <<>>

\* C35 witness: a drain ran an operation that tried to schedule through
\* resource_mut, and panicked.
C35_WitnessFatal ==
    /\ pc = "idle"
    /\ panicked
    /\ \E i \in attempts(log) : log[i].access = "resource_mut"

(***************************************************************************)
(* binsearch_upwards with a closure that is never Ok, iteration by         *)
(* iteration, in i32 arithmetic.  What an overflow does depends on the     *)
(* build: with overflow checks (the dev profile) it panics, without them   *)
(* (the release profile) the result wraps around.                          *)
(***************************************************************************)
\* i32::MIN
I32_MIN == -I32_MAX - 1

\* Whether a + b leaves the range of i32
add_overflows(a, b) ==
    \/ b > 0 /\ a > I32_MAX - b
    \/ b < 0 /\ a < I32_MIN - b

\* a + b in i32 without overflow checks
wrapping_add(a, b) ==
    IF b > 0 /\ a > I32_MAX - b THEN I32_MIN + (a - (I32_MAX - b) - 1)
    ELSE IF b < 0 /\ a < I32_MIN - b THEN I32_MAX - ((I32_MIN - b) - a - 1)
    ELSE a + b

\* Whether i * 2 leaves the range of i32
mul2_overflows(i) == i > I32_MAX \div 2 \/ i < -(I32_MAX \div 2) - 1

\* i * 2 in i32 without overflow checks
wrapping_mul2(i) ==
    IF i > I32_MAX \div 2
    THEN (i - (I32_MAX \div 2) - 1 - (I32_MAX \div 2) - 1) * 2
    ELSE IF i < -(I32_MAX \div 2) - 1
    THEN (i + (I32_MAX \div 2) + 1 + (I32_MAX \div 2) + 1) * 2
    ELSE i * 2

\* A closure that returns Err for every value
never_ok(x) == [ok |-> FALSE, at |-> x]

\* binsearch_upwards(never_ok, start) is called, in a build with or without
\* overflow checks: let mut i = 1
UpwardsCall ==
    /\ \E start \in Values, checks \in BOOLEAN :
           call' = [fn |-> "binsearch_upwards_loop", start |-> start, i |-> 1,
                    overflow_checks |-> checks, overflowed |-> FALSE]
    /\ result' = [panic |-> FALSE, res |-> NoneV]
    /\ UNCHANGED <<rtVars, seqVars, frameVars, assetVars>>

\* One iteration of the loop of binsearch_upwards: f(start + i - 1); i *= 2;
\* return res when i == i32::MAX
UpwardsIterate ==
    /\ call.fn = "binsearch_upwards_loop"
    /\ ~result.panic
    /\ ~result.res.some
    /\ LET over_arg == \/ add_overflows(call.start, call.i)
                       \/ add_overflows(wrapping_add(call.start, call.i), -1)
           arg == wrapping_add(wrapping_add(call.start, call.i), -1)
           res == never_ok(arg)
           over_i == mul2_overflows(call.i)
           i2 == wrapping_mul2(call.i)
       IN IF call.overflow_checks /\ (over_arg \/ over_i)
          THEN /\ result' = [panic |-> TRUE, res |-> NoneV]
               /\ call' = [call EXCEPT !.overflowed = TRUE]
          ELSE /\ call' = [call EXCEPT !.i = i2,
                                       !.overflowed = @ \/ over_arg \/ over_i]
               /\ result' = IF i2 = I32_MAX
                            THEN [panic |-> FALSE, res |-> Some(res)]
                            ELSE result
    /\ UNCHANGED <<rtVars, seqVars, frameVars, assetVars>>

NextUpwards ==
    \/ UpwardsCall
    \/ UpwardsIterate

SpecUpwards == InitSearch /\ [][NextUpwards]_vars

\* C38: a call of binsearch_upwards with a closure that is never Ok goes
\* through its loop without an overflow of i32 arithmetic and without a
\* panic, with i a positive number that each iteration doubles, until it
\* returns the closure's Err.
C38_AllErrReturnsErr ==
    call.fn = "binsearch_upwards_loop" =>
        /\ ~call.overflowed
        /\ ~result.panic
        /\ call.i > 0
        /\ result.res.some => ~result.res.v.ok

(***************************************************************************)
(* modula_asset: Assets<T>.  The assets map (HashMap<usize, T>) is a       *)
(* function from the keys it holds to their values.                        *)
(***************************************************************************)
\* Calls of add and add_empty in a run
MaxAdds == 3

\* The assets stored
AssetValues == {"a", "b"}

\* Mutant of Assets_add_empty: the lowest id that holds no asset is handed
\* out again
Assets_add_empty_reuse(s) ==
    LET id == CHOOSE k \in 0..s.next :
                  /\ k \notin DOMAIN s.assets
                  /\ \A j \in 0..(k - 1) : j \in DOMAIN s.assets
    IN [s |-> [s EXCEPT !.next = IF id = s.next THEN s.next + 1 ELSE s.next],
        id |-> id]

\* Assets::add_empty, as {s, id}
Assets_add_empty(s) ==
    [s |-> [s EXCEPT !.next = s.next + 1], id |-> (s.next + 1) - 1]

\* Assets::get
Assets_get(s, asset_id) ==
    IF asset_id \in DOMAIN s.assets THEN Some(s.assets[asset_id]) ELSE NoneV

\* Assets::replace, as {s, old}: HashMap::insert
Assets_replace(s, asset_id, asset) ==
    [s |-> [s EXCEPT !.assets =
                [k \in (DOMAIN s.assets) \cup {asset_id} |->
                    IF k = asset_id THEN asset ELSE s.assets[k]]],
     old |-> Assets_get(s, asset_id)]

\* Assets::add, as {s, id}
Assets_add(s, asset) ==
    LET e == Assets_add_empty(s) IN
    [s |-> Assets_replace(e.s, e.id, asset).s, id |-> e.id]

\* Assets::remove, as {s, old}: HashMap::remove
Assets_remove(s, asset_id) ==
    [s |-> [s EXCEPT !.assets =
                [k \in (DOMAIN s.assets) \ {asset_id} |-> s.assets[k]]],
     old |-> Assets_get(s, asset_id)]

\* The ids the program holds: AssetId has a private field, so an id is a
\* copy of one that add or add_empty returned
Held == { issued[i] : i \in DOMAIN issued }

OtherUnchanged == UNCHANGED <<rtVars, seqVars, frameVars, searchVars>>

AddEmpty ==
    /\ Len(issued) < MaxAdds
    /\ LET r == Assets_add_empty(asset_store) IN
         /\ asset_store' = r.s
         /\ issued' = Append(issued, r.id)
         /\ lastAssetOp' = [op |-> "add_empty", id |-> r.id]
    /\ OtherUnchanged

AddAsset ==
    /\ Len(issued) < MaxAdds
    /\ \E asset \in AssetValues :
         LET r == Assets_add(asset_store, asset) IN
         /\ asset_store' = r.s
         /\ issued' = Append(issued, r.id)
         /\ lastAssetOp' = [op |-> "add", id |-> r.id, asset |-> asset]
    /\ OtherUnchanged

Replace ==
    /\ \E id \in Held, asset \in AssetValues :
         LET r == Assets_replace(asset_store, id, asset) IN
         /\ asset_store' = r.s
         /\ lastAssetOp' = [op |-> "replace", id |-> id, asset |-> asset,
                            old |-> r.old,
                            removed |-> /\ lastAssetOp.op = "remove"
                                        /\ lastAssetOp.id = id
                                        /\ lastAssetOp.old.some]
    /\ UNCHANGED issued
    /\ OtherUnchanged

Remove ==
    /\ \E id \in Held :
         LET r == Assets_remove(asset_store, id) IN
         /\ asset_store' = r.s
         /\ lastAssetOp' = [op |-> "remove", id |-> id, old |-> r.old]
    /\ UNCHANGED issued
    /\ OtherUnchanged

InitAssets ==
    /\ InitSearch

NextAssets ==
    \/ AddEmpty
    \/ AddAsset
    \/ Replace
    \/ Remove

SpecAssets == InitAssets /\ [][NextAssets]_vars

\* C39: the ids add and add_empty have returned are pairwise distinct,
\* whatever was replaced or removed in between (so an id is not issued
\* again after its asset was removed); after replace(id, asset), also when
\* the asset of id had been removed, get returns that asset for id, that is
\* for every copy of the id; after remove(id), get returns nothing for id.
C39_IdsDistinctAndStable ==
    [][ /\ \A i, j \in DOMAIN issued' : i # j => issued'[i] # issued'[j]
        /\ lastAssetOp'.op = "replace" =>
               Assets_get(asset_store', lastAssetOp'.id)
                   = Some(lastAssetOp'.asset)
        /\ lastAssetOp'.op = "add" =>
               Assets_get(asset_store', lastAssetOp'.id)
                   = Some(lastAssetOp'.asset)
        /\ lastAssetOp'.op = "remove" =>
               Assets_get(asset_store', lastAssetOp'.id) = NoneV
      ]_vars

\* C39 witness: all ids of the run were issued, and replace was called on
\* one of them right after remove took its asset; get returns the new asset.
C39_Witness ==
    /\ lastAssetOp.op = "replace"
    /\ lastAssetOp.removed
    /\ Len(issued) = MaxAdds
    /\ Assets_get(asset_store, lastAssetOp.id) = Some(lastAssetOp.asset)

(***************************************************************************)
(* modula_texture: attempt of the DefaultLayouter.  rectangle_pack places  *)
(* every rectangle in one of the bins, or fails; a packing is the bin of   *)
(* each rectangle, in the order of their indices.                          *)
(***************************************************************************)
\* The bins of an attempt
MaxLayers == 4

\* The layers an atlas may have at most
MaxDepth == 3

\* The rectangles to place
MaxRects == 2

\* u32::div_ceil
div_ceil(a, b) == (a + b - 1) \div b

\* for i in 0..atlas_count { atlases.push(((wh, wh, depth), AtlasLayout(Vec::new()))) }
empty_atlases(wh, max_depth, layers) ==
    LET atlas_count == div_ceil(layers, max_depth) IN
    [n \in 1..atlas_count |->
        [size |-> <<wh, wh, IF n - 1 = atlas_count - 1
                            THEN layers % max_depth
                            ELSE max_depth>>,
         layout |-> <<>>]]

\* for mut tex in layout { .. }: the sub-textures from index idx on are
\* pushed to their atlases and entered into entry_map
RECURSIVE place_loop(_, _, _, _)
place_loop(out, layout, idx, max_depth) ==
    IF idx > Len(layout) THEN out
    ELSE LET tex == layout[idx]
             atlas_idx == tex.layer \div max_depth
             atlases == [out.atlases EXCEPT ![atlas_idx + 1].layout =
                            Append(@, [tex EXCEPT !.layer = tex.layer % max_depth])]
         IN place_loop(
                [out EXCEPT !.atlases = atlases,
                            !.entry_map =
                                Append(@, <<atlas_idx,
                                            Len(atlases[atlas_idx + 1].layout) - 1>>)],
                layout, idx + 1, max_depth)

\* attempt(wh, max_depth, layers, rects), rectangle_pack having produced
\* packing: Err when it failed, else Ok(AtlasLayouterOutput)
attempt(wh, max_depth, layers, packing) ==
    IF ~packing.some THEN [ok |-> FALSE]
    ELSE LET layout == [idx \in 1..Len(packing.v) |->
                           [layer |-> packing.v[idx], rect |-> idx - 1]]
         IN place_loop([ok |-> TRUE, entry_map |-> <<>>,
                        atlases |-> empty_atlases(wh, max_depth, layers)],
                       layout, 1, max_depth)

\* What rectangle_pack may return for at most MaxRects rectangles and the
\* bins 0 .. layers - 1
Packings(layers) ==
    {NoneV} \cup
    { Some(p) : p \in UNION { [1..n -> 0..(layers - 1)] : n \in 0..MaxRects } }

\* attempt is called, as DefaultLayouter::layout calls it
Attempt ==
    /\ \E max_depth \in 1..MaxDepth, layers \in 1..MaxLayers :
         \E packing \in Packings(layers) :
           /\ call' = [fn |-> "attempt", wh |-> 8, max_depth |-> max_depth,
                       layers |-> layers, packing |-> packing]
           /\ result' = [panic |-> FALSE,
                         res |-> Some(attempt(8, max_depth, layers, packing))]
    /\ UNCHANGED <<rtVars, seqVars, frameVars, assetVars>>

NextLayouter ==
    \/ Attempt

SpecLayouter == InitSearch /\ [][NextLayouter]_vars

\* The sum of the layer counts of the atlases from the n-th on
RECURSIVE layers_from(_, _)
layers_from(atlases, n) ==
    IF n > Len(atlases) THEN 0
    ELSE atlases[n].size[3] + layers_from(atlases, n + 1)

\* C40: in the output of a successful attempt over `layers` bins with at
\* most max_depth layers per atlas, every atlas has between 1 and max_depth
\* layers, the layer counts add up to `layers`, and every sub-texture's
\* layer index is below the layer count of the atlas it is in.
C40_AtlasLayersConsistent ==
    (call.fn = "attempt" /\ result.res.v.ok) =>
        LET atlases == result.res.v.atlases IN
        /\ \A n \in 1..Len(atlases) :
               /\ atlases[n].size[3] >= 1
               /\ atlases[n].size[3] <= call.max_depth
               /\ \A i \in 1..Len(atlases[n].layout) :
                      atlases[n].layout[i].layer < atlases[n].size[3]
        /\ layers_from(atlases, 1) = call.layers

====
